---------------------------- MODULE Spec2Model ----------------------------
(***************************************************************************)
(* A model of galago: the stub registry and its detectors                  *)
(* (internal/stubs), the key-capture hooks (internal/stubs/setters), the   *)
(* internal-function mocker (internal/stubs/internal), the emulator's hook *)
(* dispatch (internal/emulator) and the driver (cmd/galago).               *)
(*                                                                         *)
(* Strings are sequences of one-character strings, so that the substring,  *)
(* prefix and case-folding tests of the source are computed, not assumed.  *)
(* Guest memory bytes are integers 0..255.                                 *)
(***************************************************************************)
EXTENDS Integers, Sequences, FiniteSets, TLC

(***************************************************************************)
(* strings.ToLower, strings.Contains, strings.HasPrefix, strings.HasSuffix *)
(***************************************************************************)
UpperChars == <<"A","B","C","D","E","F","G","H","I","J","K","L","M","N","O","P","Q","R","S","T","U","V","W","X","Y","Z">>
LowerChars == <<"a","b","c","d","e","f","g","h","i","j","k","l","m","n","o","p","q","r","s","t","u","v","w","x","y","z">>

ToLower(s) ==
  [i \in 1..Len(s) |->
     IF \E k \in 1..Len(UpperChars) : UpperChars[k] = s[i]
       THEN LowerChars[CHOOSE k \in 1..Len(UpperChars) : UpperChars[k] = s[i]]
       ELSE s[i]]

HasPrefix(s, p) == Len(p) <= Len(s) /\ SubSeq(s, 1, Len(p)) = p

HasSuffix(s, p) == Len(p) <= Len(s) /\ SubSeq(s, Len(s) - Len(p) + 1, Len(s)) = p

Contains(s, p) ==
  \E i \in 0..(Len(s) - Len(p)) : SubSeq(s, i + 1, i + Len(p)) = p

ContainsAny(s, ps) == \E k \in 1..Len(ps) : Contains(s, ps[k])

(***************************************************************************)
(* uint64 values are four 16-bit words, most significant first, so that    *)
(* the whole 64-bit range is there: Word(0xDEAD, 0xBEEF) is 0xDEADBEEF.    *)
(***************************************************************************)
WordMod == 65536

Word(hi, lo) == <<0, 0, hi, lo>>
FromInt(n) == <<0, 0, n \div WordMod, n % WordMod>>
Zero64 == FromInt(0)

Lt(a, b) ==
  \E i \in 1..4 : a[i] < b[i] /\ \A j \in 1..(i - 1) : a[j] = b[j]
Le(a, b) == a = b \/ Lt(a, b)

\* a + b modulo 2^64.
Add64(a, b) ==
  LET s4 == a[4] + b[4]
      s3 == a[3] + b[3] + s4 \div WordMod
      s2 == a[2] + b[2] + s3 \div WordMod
      s1 == a[1] + b[1] + s2 \div WordMod
  IN <<s1 % WordMod, s2 % WordMod, s3 % WordMod, s4 % WordMod>>

AddI(a, n) == Add64(a, FromInt(n))

(***************************************************************************)
(* The fixed memory map (internal/emulator).                               *)
(***************************************************************************)
StackBase == Word(32768, 0)
StackSize == Word(16, 0)
HeapBase == Word(36864, 0)
HeapSize == Word(4096, 0)
MockObjBase == Word(57003, 0)
LibcBase == Word(57005, 0)
LibcSize == Word(1, 0)
LoadELFBase == Word(16384, 0)
Sentinel == Word(57005, 48879)

(***************************************************************************)
(* Symbol names of the sample binaries, and the address the loader gives   *)
(* each: imports at their PLT entry (plt_base + 32 + 16 n), internal text  *)
(* symbols at their rebased st_value.  Every name has its own address.     *)
(***************************************************************************)
Sym ==
  [malloc |-> <<"m","a","l","l","o","c">>,
   abort |-> <<"a","b","o","r","t">>,
   ext |-> <<"e","x","t","_","f","n">>,
   jsb |-> <<"j","s","b","_","s","e","t","_","x","x","t","e","a","_","k","e","y">>,
   lua |-> <<"_","Z","N","7","c","o","c","o","s","2","d","8","L","u","a","S","t","a","c","k","1","1","s","e","t","X","X","T","E","A","K","e","y","E","P","K","c","i">>,
   dec |-> <<"_","Z","N","1","5","R","e","s","o","u","r","c","e","s","D","e","c","o","d","e","1","3","s","e","t","D","e","c","r","y","p","t","K","e","y","E","R","K","S","s">>,
   inst |-> <<"_","Z","N","8","D","i","r","e","c","t","o","r","1","1","g","e","t","I","n","s","t","a","n","c","e","E","v">>,
   il2 |-> <<"i","l","2","c","p","p","_","C","r","y","p","t","o","K","e","y">>,
   aes |-> <<"s","e","t","A","E","S","K","e","y">>]

NamePool == {Sym[k] : k \in DOMAIN Sym}

PltBase == AddI(LoadELFBase, 4096)
TextBase == AddI(LoadELFBase, 8192)

AddrOf ==
  (Sym.malloc :> AddI(PltBase, 32)) @@ (Sym.abort :> AddI(PltBase, 48)) @@
  (Sym.ext :> AddI(PltBase, 64)) @@ (Sym.jsb :> AddI(PltBase, 80)) @@
  (Sym.lua :> TextBase) @@ (Sym.dec :> AddI(TextBase, 256)) @@
  (Sym.inst :> AddI(TextBase, 512)) @@ (Sym.il2 :> AddI(TextBase, 768)) @@
  (Sym.aes :> AddI(TextBase, 1024))

\* ELFInfo.Imports and ELFInfo.Symbols of a binary; Symbols holds the imports too.
ImportsOf(bin) == [n \in bin.imports |-> AddrOf[n]]
SymbolsOf(bin) == [n \in bin.imports \cup bin.internal |-> AddrOf[n]]

Binaries ==
  { [imports |-> {Sym.malloc, Sym.abort, Sym.ext, Sym.jsb}, internal |-> {Sym.lua, Sym.dec, Sym.inst}],
    [imports |-> {Sym.malloc, Sym.ext}, internal |-> {Sym.il2, Sym.aes}],
    [imports |-> {Sym.jsb}, internal |-> {Sym.aes}],
    [imports |-> {}, internal |-> {Sym.inst}] }

(***************************************************************************)
(* Address hooks.  Emulator.addrHooks maps an address to one hook function *)
(* and HookAddress replaces the entry.                                     *)
(***************************************************************************)
Hook(kind, fn, arg) == [kind |-> kind, fn |-> fn, arg |-> arg]

HookAddress(hooks, addr, h) ==
  [a \in DOMAIN hooks \cup {addr} |-> IF a = addr THEN h ELSE hooks[a]]

\* HookAddress for every name of `names`, each at its address in `syms`, with
\* the hook mk[name].
HookNames(hooks, syms, names, mk) ==
  LET addrs == {syms[n] : n \in names}
      nameAt(a) == CHOOSE n \in names : syms[n] = a
  IN [a \in DOMAIN hooks \cup addrs |->
        IF a \in addrs THEN mk[nameAt(a)] ELSE hooks[a]]

CaptureKinds == {"xxtea", "stdstring", "generic"}

(***************************************************************************)
(* Detectors of the setters package.                                       *)
(***************************************************************************)
cocos2dxPatterns == << <<"c","o","c","o","s","2","d">>, <<"s","e","t","X","X","T","e","a","K","e","y">>, <<"Z","i","p","U","t","i","l","s">>, <<"c","c","D","e","c","r","y","p","t">>, <<"j","s","b","_","s","e","t">> >>
unityPatterns == << <<"i","l","2","c","p","p">>, <<"I","l","2","C","p","p">>, <<"m","o","n","o","_">> >>
internalMockPatterns ==
  << <<"l","u","a","_">>, <<"l","u","a","L","_">>, <<"t","o","l","u","a","_">>, <<"g","e","t","I","n","s","t","a","n","c","e">>, <<"L","u","a","E","n","g","i","n","e">>, <<"L","u","a","S","t","a","c","k">>,
     <<"R","e","s","o","u","r","c","e","s","D","e","c","o","d","e">> >>

\* The hook activateCocos2dx attaches to a symbol: the first branch that matches.
cocos2dxHook(name) ==
  LET lower == ToLower(name) IN
  IF Contains(lower, <<"s","e","t","x","x","t","e","a","k","e","y">>) \/ Contains(lower, <<"s","e","t","_","x","x","t","e","a","_","k","e","y">>)
    THEN Hook("xxtea", name, "xxtea")
  ELSE IF Contains(name, <<"j","s","b">>) /\ Contains(name, <<"X","T","e","a">>)
    THEN Hook("xxtea", name, "xxtea")
  ELSE IF Contains(name, <<"Z","i","p","U","t","i","l","s">>) /\ Contains(name, <<"K","e","y">>)
    THEN Hook("xxtea", name, "xxtea")
  ELSE IF Contains(name, <<"A","p","p","l","i","c","a","t","i","o","n">>) /\ Contains(name, <<"X","T","e","a">>)
    THEN Hook("xxtea", name, "xxtea")
  ELSE IF \/ Contains(name, <<"s","e","t","C","r","y","p","t","o","K","e","y">>) \/ Contains(name, <<"C","r","y","p","t","o","K","e","y","A","n","d","S","i","g","n">>)
          \/ Contains(name, <<"s","e","t","E","n","c","r","y","p","t","K","e","y">>) \/ Contains(name, <<"s","e","t","D","e","c","r","y","p","t","K","e","y">>)
    THEN Hook("stdstring", name, "xxtea")
  ELSE IF \/ Contains(name, <<"s","e","t","A","E","S","K","e","y">>) \/ Contains(name, <<"A","E","S","_","s","e","t","_","k","e","y">>)
          \/ Contains(name, <<"a","e","s","_","k","e","y">>)
    THEN Hook("generic", name, "aes")
  ELSE Hook("none", name, "")

\* cocos2dxHook of every name of the sample binaries, computed once.
cocos2dxHookOf == [n \in NamePool |-> cocos2dxHook(n)]

cocos2dxNames(symbols) ==
  {n \in DOMAIN symbols : symbols[n] # Zero64 /\ cocos2dxHookOf[n].kind # "none"}

activateCocos2dx(hooks, imports, symbols) ==
  HookNames(hooks, symbols, cocos2dxNames(symbols), cocos2dxHookOf)

unityHook(name) ==
  IF \/ Contains(name, <<"s","e","t","C","r","y","p","t","o","K","e","y">>) \/ Contains(name, <<"s","e","t","X","X","T","e","a","K","e","y">>)
     \/ Contains(name, <<"c","o","c","o","s","2","d">>)
    THEN Hook("none", name, "")
  ELSE IF /\ Contains(name, <<"E","n","c","r","y","p","t">>) \/ Contains(name, <<"D","e","c","r","y","p","t">>)
          /\ Contains(name, <<"K","e","y">>) \/ Contains(name, <<"k","e","y">>)
    THEN Hook("generic", name, "custom")
  ELSE IF Contains(name, <<"C","r","y","p","t","o">>) /\ Contains(name, <<"K","e","y">>)
    THEN Hook("generic", name, "custom")
  ELSE Hook("none", name, "")

unityHookOf == [n \in NamePool |-> unityHook(n)]

unityNames(symbols) ==
  {n \in DOMAIN symbols : symbols[n] # Zero64 /\ unityHookOf[n].kind # "none"}

activateUnityIL2CPP(hooks, imports, symbols) ==
  HookNames(hooks, symbols, unityNames(symbols), unityHookOf)

(***************************************************************************)
(* The internal-function mocker.                                           *)
(***************************************************************************)
luaAPIFuncs ==
  << <<"l","u","a","_","g","e","t","t","o","p">>,
     <<"l","u","a","_","s","e","t","t","o","p">>,
     <<"l","u","a","_","p","u","s","h","v","a","l","u","e">>,
     <<"l","u","a","_","r","e","m","o","v","e">>,
     <<"l","u","a","_","i","n","s","e","r","t">>,
     <<"l","u","a","_","r","e","p","l","a","c","e">>,
     <<"l","u","a","_","c","h","e","c","k","s","t","a","c","k">>,
     <<"l","u","a","_","x","m","o","v","e">>,
     <<"l","u","a","_","t","y","p","e">>,
     <<"l","u","a","_","t","y","p","e","n","a","m","e">>,
     <<"l","u","a","_","i","s","n","u","m","b","e","r">>,
     <<"l","u","a","_","i","s","s","t","r","i","n","g">>,
     <<"l","u","a","_","i","s","c","f","u","n","c","t","i","o","n">>,
     <<"l","u","a","_","i","s","u","s","e","r","d","a","t","a">>,
     <<"l","u","a","_","i","s","f","u","n","c","t","i","o","n">>,
     <<"l","u","a","_","i","s","t","a","b","l","e">>,
     <<"l","u","a","_","i","s","n","i","l">>,
     <<"l","u","a","_","i","s","b","o","o","l","e","a","n">>,
     <<"l","u","a","_","i","s","t","h","r","e","a","d">>,
     <<"l","u","a","_","t","o","n","u","m","b","e","r">>,
     <<"l","u","a","_","t","o","i","n","t","e","g","e","r">>,
     <<"l","u","a","_","t","o","b","o","o","l","e","a","n">>,
     <<"l","u","a","_","t","o","l","s","t","r","i","n","g">>,
     <<"l","u","a","_","t","o","s","t","r","i","n","g">>,
     <<"l","u","a","_","t","o","c","f","u","n","c","t","i","o","n">>,
     <<"l","u","a","_","t","o","u","s","e","r","d","a","t","a">>,
     <<"l","u","a","_","t","o","t","h","r","e","a","d">>,
     <<"l","u","a","_","t","o","p","o","i","n","t","e","r">>,
     <<"l","u","a","_","o","b","j","l","e","n">>,
     <<"l","u","a","_","r","a","w","l","e","n">>,
     <<"l","u","a","_","p","u","s","h","n","i","l">>,
     <<"l","u","a","_","p","u","s","h","n","u","m","b","e","r">>,
     <<"l","u","a","_","p","u","s","h","i","n","t","e","g","e","r">>,
     <<"l","u","a","_","p","u","s","h","l","s","t","r","i","n","g">>,
     <<"l","u","a","_","p","u","s","h","s","t","r","i","n","g">>,
     <<"l","u","a","_","p","u","s","h","c","c","l","o","s","u","r","e">>,
     <<"l","u","a","_","p","u","s","h","c","f","u","n","c","t","i","o","n">>,
     <<"l","u","a","_","p","u","s","h","b","o","o","l","e","a","n">>,
     <<"l","u","a","_","p","u","s","h","l","i","g","h","t","u","s","e","r","d","a","t","a">>,
     <<"l","u","a","_","p","u","s","h","t","h","r","e","a","d">>,
     <<"l","u","a","_","p","u","s","h","v","f","s","t","r","i","n","g">>,
     <<"l","u","a","_","p","u","s","h","f","s","t","r","i","n","g">>,
     <<"l","u","a","_","g","e","t","t","a","b","l","e">>,
     <<"l","u","a","_","g","e","t","f","i","e","l","d">>,
     <<"l","u","a","_","r","a","w","g","e","t">>,
     <<"l","u","a","_","r","a","w","g","e","t","i">>,
     <<"l","u","a","_","c","r","e","a","t","e","t","a","b","l","e">>,
     <<"l","u","a","_","n","e","w","t","a","b","l","e">>,
     <<"l","u","a","_","n","e","w","u","s","e","r","d","a","t","a">>,
     <<"l","u","a","_","s","e","t","t","a","b","l","e">>,
     <<"l","u","a","_","s","e","t","f","i","e","l","d">>,
     <<"l","u","a","_","r","a","w","s","e","t">>,
     <<"l","u","a","_","r","a","w","s","e","t","i">>,
     <<"l","u","a","_","s","e","t","m","e","t","a","t","a","b","l","e">>,
     <<"l","u","a","_","g","e","t","m","e","t","a","t","a","b","l","e">>,
     <<"l","u","a","_","s","e","t","g","l","o","b","a","l">>,
     <<"l","u","a","_","g","e","t","g","l","o","b","a","l">>,
     <<"l","u","a","_","r","e","g","i","s","t","e","r">>,
     <<"l","u","a","_","c","a","l","l">>,
     <<"l","u","a","_","p","c","a","l","l">>,
     <<"l","u","a","_","c","p","c","a","l","l">>,
     <<"l","u","a","_","l","o","a","d">>,
     <<"l","u","a","_","d","u","m","p">>,
     <<"l","u","a","_","g","c">>,
     <<"l","u","a","_","e","r","r","o","r">>,
     <<"l","u","a","_","n","e","x","t">>,
     <<"l","u","a","_","c","o","n","c","a","t">>,
     <<"l","u","a","_","g","e","t","a","l","l","o","c","f">>,
     <<"l","u","a","_","s","e","t","a","l","l","o","c","f">>,
     <<"l","u","a","_","g","e","t","u","p","v","a","l","u","e">>,
     <<"l","u","a","_","s","e","t","u","p","v","a","l","u","e">>,
     <<"l","u","a","_","s","e","t","l","e","v","e","l">>,
     <<"l","u","a","_","a","t","p","a","n","i","c">>,
     <<"l","u","a","_","n","e","w","t","h","r","e","a","d">>,
     <<"l","u","a","_","n","e","w","s","t","a","t","e">>,
     <<"l","u","a","_","c","l","o","s","e">>,
     <<"l","u","a","_","s","t","a","t","u","s">>,
     <<"l","u","a","l","_","n","e","w","s","t","a","t","e">>,
     <<"l","u","a","l","_","o","p","e","n","l","i","b","s">>,
     <<"l","u","a","l","_","r","e","g","i","s","t","e","r">>,
     <<"l","u","a","l","_","g","e","t","m","e","t","a","f","i","e","l","d">>,
     <<"l","u","a","l","_","c","a","l","l","m","e","t","a">>,
     <<"l","u","a","l","_","t","y","p","e","r","r","o","r">>,
     <<"l","u","a","l","_","a","r","g","e","r","r","o","r">>,
     <<"l","u","a","l","_","c","h","e","c","k","n","u","m","b","e","r">>,
     <<"l","u","a","l","_","o","p","t","n","u","m","b","e","r">>,
     <<"l","u","a","l","_","c","h","e","c","k","i","n","t","e","g","e","r">>,
     <<"l","u","a","l","_","o","p","t","i","n","t","e","g","e","r">>,
     <<"l","u","a","l","_","c","h","e","c","k","s","t","r","i","n","g">>,
     <<"l","u","a","l","_","o","p","t","s","t","r","i","n","g">>,
     <<"l","u","a","l","_","c","h","e","c","k","l","s","t","r","i","n","g">>,
     <<"l","u","a","l","_","o","p","t","l","s","t","r","i","n","g">>,
     <<"l","u","a","l","_","c","h","e","c","k","u","d","a","t","a">>,
     <<"l","u","a","l","_","c","h","e","c","k","t","y","p","e">>,
     <<"l","u","a","l","_","c","h","e","c","k","a","n","y">>,
     <<"l","u","a","l","_","n","e","w","m","e","t","a","t","a","b","l","e">>,
     <<"l","u","a","l","_","c","h","e","c","k","s","t","a","c","k">>,
     <<"l","u","a","l","_","l","o","a","d","f","i","l","e">>,
     <<"l","u","a","l","_","l","o","a","d","b","u","f","f","e","r">>,
     <<"l","u","a","l","_","l","o","a","d","s","t","r","i","n","g">>,
     <<"l","u","a","l","_","r","e","f">>,
     <<"l","u","a","l","_","u","n","r","e","f">>,
     <<"l","u","a","l","_","g","s","u","b">>,
     <<"l","u","a","l","_","f","i","n","d","t","a","b","l","e">>,
     <<"l","u","a","l","_","w","h","e","r","e">>,
     <<"l","u","a","l","_","e","r","r","o","r">>,
     <<"l","u","a","l","_","d","o","f","i","l","e">>,
     <<"l","u","a","l","_","d","o","s","t","r","i","n","g">> >>

mockPatterns ==
  << <<"a","d","d","s","e","a","r","c","h","p","a","t","h">>,
     <<"l","u","a","_","m","o","d","u","l","e","_","r","e","g","i","s","t","e","r">>,
     <<"l","u","a","_","r","e","g","i","s","t","e","r">>,
     <<"l","u","a","e","n","g","i","n","e">>,
     <<"l","u","a","h","e","l","p","e","r">>,
     <<"l","u","a","o","p","e","n","_">>,
     <<"l","u","a","s","t","a","c","k">>,
     <<"r","e","g","i","s","t","e","r","_","a","l","l","_","c","o","c","o","s","2","d">>,
     <<"r","e","g","i","s","t","e","r","_","a","l","l","_","c","o","c","o","s","2","d","x">>,
     <<"r","e","g","i","s","t","e","r","_","c","u","s","t","o","m">>,
     <<"r","e","g","i","s","t","e","r","_","h","u","m","m","e","r">>,
     <<"r","e","m","o","v","e","s","c","r","i","p","t","e","n","g","i","n","e">>,
     <<"r","e","s","o","u","r","c","e","s","d","e","c","o","d","e">>,
     <<"r","e","s","t","a","r","t","_","l","u","a">>,
     <<"s","c","h","e","d","u","l","e">>,
     <<"s","c","h","e","d","u","l","e","r",":",":","s","c","h","e","d","u","l","e">>,
     <<"s","c","h","e","d","u","l","e","u","p","d","a","t","e">>,
     <<"s","e","t","a","n","i","m","a","t","i","o","n","i","n","t","e","r","v","a","l">>,
     <<"s","e","t","s","c","r","i","p","t","e","n","g","i","n","e">>,
     <<"s","h","a","r","e","d","d","e","c","o","d","e">>,
     <<"t","o","l","u","a","_">>,
     <<"u","n","s","c","h","e","d","u","l","e">>,
     <<"i","n","i","t","_","a","d","j","u","s","t">>,
     <<"i","n","i","t","_","a","p","p","s","f","l","y","e","r">>,
     <<"i","n","i","t","_","f","a","c","e","b","o","o","k">>,
     <<"i","n","i","t","p","l","a","t","f","o","r","m">>,
     <<"i","n","i","t","c","r","a","s","h","r","e","p","o","r","t">>,
     <<"c","r","a","s","h","r","e","p","o","r","t">>,
     <<"_","m","a","p","_","b","a","s","e">>,
     <<"_","h","a","s","h","t","a","b","l","e">>,
     <<"_","s","e","l","e","c","t","1","s","t">>,
     <<"_","p","r","i","m","e","_","r","e","h","a","s","h">>,
     <<"g","e","t","v","a","l","u","e","m","a","p">>,
     <<"g","e","t","a","r","c","h","t","y","p","e">>,
     <<"c","o","c","o","s","2","d",":",":","l","o","g">>,
     <<"c","o","c","o","s","2","d",":",":","v","a","l","u","e">>,
     <<"b","u","g","l","y","l","u","a","a","g","e","n","t">>,
     <<"p","l","u","g","i","n","j","n","i","h","e","l","p","e","r">>,
     <<"r","e","g","i","s","t","e","r","_","b","o","l","e">>,
     <<"r","e","g","i","s","t","e","r","_","a","l","l","_","p","l","u","g","i","n","x">>,
     <<"p","a","c","k","a","g","e","_","q","u","i","c","k","_","r","e","g","i","s","t","e","r">>,
     <<"l","o","a","d","c","h","u","n","k","s","f","r","o","m","z","i","p">> >>

rttiPatterns ==
  << <<"_","_","d","o","_","c","a","t","c","h">>,
     <<"_","_","d","o","_","d","y","n","c","a","s","t">>,
     <<"_","_","d","o","_","u","p","c","a","s","t">>,
     <<"_","_","i","s","_","p","o","i","n","t","e","r","_","p">>,
     <<"_","_","i","s","_","f","u","n","c","t","i","o","n","_","p">> >>

shouldMockInternal(name) ==
  LET lower == ToLower(name)
      has(p) == Contains(lower, p)
  IN
  IF has(<<"s","e","t","x","x","t","e","a","k","e","y">>) \/ has(<<"s","e","t","c","r","y","p","t","o","k","e","y">>) \/ has(<<"x","x","t","e","a","k","e","y","a","n","d","s","i","g","n">>) THEN FALSE
  ELSE
    \/ has(<<"g","e","t","i","n","s","t","a","n","c","e">>)
    \/ has(<<":",":","s","t","a","r","t">>) \/ has(<<":",":","i","n","i","t">>) \/ has(<<":",":","c","r","e","a","t","e">>)
    \/ \E k \in 1..Len(luaAPIFuncs) :
         \/ name = luaAPIFuncs[k]
         \/ HasPrefix(name, luaAPIFuncs[k] \o <<"@">>)
         \/ has(luaAPIFuncs[k])
    \/ ContainsAny(lower, mockPatterns)
    \/ ContainsAny(lower, rttiPatterns)
    \/ has(<<"c","o","c","o","s","2","d">>) /\ has(<<"a","p","p","l","i","c","a","t","i","o","n">>) /\ (has(<<"c","2","e","v">>) \/ has(<<"c","1","e","v">>))
    \/ has(<<"s","t","5","c","t","y","p","e">>) /\ (has(<<"c","2","e">>) \/ has(<<"c","1","e">>))
    \/ has(<<"s","t","6","l","o","c","a","l","e">>) \/ has(<<"s","t","7","c","o","l","l","a","t","e">>) \/ has(<<"s","t","7","c","o","d","e","c","v","t">>)
    \/ has(<<"s","t","7","n","u","m","_","g","e","t">>) \/ has(<<"s","t","7","n","u","m","_","p","u","t">>) \/ has(<<"s","t","8","n","u","m","p","u","n","c","t">>)
    \/ has(<<"s","t","8","t","i","m","e","_","g","e","t">>) \/ has(<<"s","t","8","t","i","m","e","_","p","u","t">>) \/ has(<<"s","t","8","m","e","s","s","a","g","e","s">>)
    \/ has(<<"s","t","9","m","o","n","e","y","_","g","e","t">>) \/ has(<<"s","t","9","m","o","n","e","y","_","p","u","t">>) \/ has(<<"s","t","1","0","m","o","n","e","y","p","u","n","c","t">>)
    \/ has(<<"s","t","8","_","r","b","_","t","r","e","e">>)
    \/ has(<<"f","r","a","m","e","b","u","f","f","e","r">>) /\ (has(<<"c","1","e">>) \/ has(<<"c","2","e">>))
    \/ has(<<"a","s","y","n","c","t","a","s","k","p","o","o","l">>) /\ (has(<<"d","1","e">>) \/ has(<<"d","2","e">>))
    \/ has(<<"s","t","5","d","e","q","u","e">>)
    \/ has(<<"c","o","c","o","s","2","d">>) /\ has(<<"a","u","t","o","r","e","l","e","a","s","e">>)
    \/ has(<<"p","o","o","l","m","a","n","a","g","e","r">>) \/ has(<<"a","u","t","o","r","e","l","e","a","s","e","p","o","o","l">>)
    \/ has(<<"l","u","a","e","n","g","i","n","e">>) \/ has(<<"s","c","r","i","p","t","e","n","g","i","n","e","m","a","n","a","g","e","r">>) \/ has(<<"l","u","a","s","t","a","c","k">>)
    \/ has(<<"c","o","c","o","s","2","d">>) /\ has(<<"d","i","r","e","c","t","o","r">>)
    \/ has(<<"c","c","g","a","m","e","m","a","i","n">>)
         /\ (has(<<"l","u","a","_","s","t","a","t","e">>) \/ ~has(<<"a","p","p","l","i","c","a","t","i","o","n","d","i","d","f","i","n","i","s","h","l","a","u","n","c","h","i","n","g">>))
    \/ has(<<"l","u","a","_","m","o","d","u","l","e","_","r","e","g","i","s","t","e","r">>)

stringPatterns ==
  << <<"g","e","t","p","a","t","h">>,
     <<"g","e","t","s","t","r","i","n","g">>,
     <<"g","e","t","n","a","m","e">>,
     <<"t","o","s","t","r","i","n","g">>,
     <<"g","e","t","w","r","i","t","a","b","l","e">>,
     <<"f","u","l","l","p","a","t","h">>,
     <<"g","e","t","a","r","c","h">>,
     <<"g","e","t","k","e","y">>,
     <<"g","e","t","s","i","g","n">>,
     <<"g","e","t","u","r","l">>,
     <<"g","e","t","u","r","i">>,
     <<"g","e","t","t","e","x","t">>,
     <<"g","e","t","l","a","b","e","l">>,
     <<"g","e","t","t","i","t","l","e">>,
     <<"g","e","t","d","e","s","c","r","i","p","t","i","o","n">> >>

voidPrefixes ==
  << <<"s","e","t">>,
     <<"i","n","i","t">>,
     <<"s","t","a","r","t">>,
     <<"s","t","o","p">>,
     <<"r","e","s","e","t">>,
     <<"c","l","e","a","r">>,
     <<"r","e","l","e","a","s","e">>,
     <<"d","e","s","t","r","o","y">>,
     <<"r","e","m","o","v","e">>,
     <<"d","e","l","e","t","e">>,
     <<"a","d","d">>,
     <<"i","n","s","e","r","t">>,
     <<"p","u","s","h">>,
     <<"p","o","p">>,
     <<"o","n">>,
     <<"h","a","n","d","l","e">>,
     <<"p","r","o","c","e","s","s">>,
     <<"u","p","d","a","t","e">>,
     <<"v","i","s","i","t">>,
     <<"d","r","a","w">>,
     <<"r","e","n","d","e","r">>,
     <<"r","e","g","i","s","t","e","r">>,
     <<"u","n","r","e","g","i","s","t","e","r">>,
     <<"s","c","h","e","d","u","l","e">>,
     <<"u","n","s","c","h","e","d","u","l","e">>,
     <<"c","l","e","a","n","u","p">>,
     <<"l","o","a","d">>,
     <<"s","a","v","e">>,
     <<"w","r","i","t","e">>,
     <<"c","l","o","s","e">>,
     <<"o","p","e","n">>,
     <<"b","e","g","i","n">>,
     <<"e","n","d">>,
     <<"e","n","t","e","r">>,
     <<"e","x","i","t">>,
     <<"p","a","u","s","e">>,
     <<"r","e","s","u","m","e">>,
     <<"r","e","t","a","i","n">>,
     <<"a","u","t","o","r","e","l","e","a","s","e">> >>

voidExclusions ==
  << <<"g","e","t","s","e","t">>,
     <<"i","s","s","e","t">>,
     <<"o","f","f","s","e","t">>,
     <<"o","n","s","e","t">>,
     <<"g","e","t","i","n","s","t","a","n","c","e">>,
     <<"s","e","t","g","e","t">>,
     <<"s","e","t","u","p">> >>

boolPrefixes ==
  << <<"i","s">>,
     <<"h","a","s">>,
     <<"c","a","n">>,
     <<"s","h","o","u","l","d">>,
     <<"w","i","l","l">>,
     <<"d","i","d">>,
     <<"w","a","s">>,
     <<"c","h","e","c","k">>,
     <<"v","a","l","i","d">> >>

intPatterns ==
  << <<"c","o","u","n","t">>,
     <<"s","i","z","e">>,
     <<"l","e","n","g","t","h">>,
     <<"i","n","d","e","x">>,
     <<"g","e","t","i","n","t">>,
     <<"g","e","t","c","o","u","n","t">>,
     <<"g","e","t","n","u","m","b","e","r">>,
     <<"g","e","t","i","n","d","e","x">>,
     <<"g","e","t","s","i","z","e">>,
     <<"g","e","t","l","e","n","g","t","h">>,
     <<"g","e","t","t","a","g">> >>

\* strings.LastIndex(s, "::") as a 1-based position, 0 when absent.
LastIndexColons(s) ==
  LET hits == {i \in 1..(Len(s) - 1) : s[i] = ":" /\ s[i + 1] = ":"}
  IN IF hits = {} THEN 0 ELSE CHOOSE i \in hits : \A j \in hits : j <= i

\* strings.Index(s, "(") as a 1-based position, 0 when absent.
IndexParen(s) ==
  LET hits == {i \in 1..Len(s) : s[i] = "("}
  IN IF hits = {} THEN 0 ELSE CHOOSE i \in hits : \A j \in hits : i <= j

inferReturnBehavior(name) ==
  LET lower == ToLower(name)
      has(p) == Contains(lower, p)
      c == LastIndexColons(lower)
      m1 == IF c # 0 THEN SubSeq(lower, c + 2, Len(lower)) ELSE lower
      p == IndexParen(m1)
      method == IF p # 0 THEN SubSeq(m1, 1, p - 1) ELSE m1
      isVoidPrefix == \E k \in 1..Len(voidPrefixes) : HasPrefix(method, voidPrefixes[k])
      isExcluded == ContainsAny(lower, voidExclusions)
  IN
  IF \/ has(<<"_","_","d","o","_","u","p","c","a","s","t">>) \/ has(<<"_","_","d","o","_","c","a","t","c","h">>) \/ has(<<"_","_","d","o","_","d","y","n","c","a","s","t">>)
     \/ has(<<"_","_","i","s","_","p","o","i","n","t","e","r","_","p">>) \/ has(<<"_","_","i","s","_","f","u","n","c","t","i","o","n","_","p">>)
    THEN "rtti"
  ELSE IF (has(<<"_","m","a","p","_","b","a","s","e">>) \/ has(<<"v","a","l","u","e","m","a","p">>)) /\ has(<<"v","a","l","u","e">>) THEN "value_ref"
  ELSE IF ContainsAny(lower, stringPatterns) THEN "string"
  ELSE IF isVoidPrefix /\ ~isExcluded THEN "void"
  ELSE IF \E k \in 1..Len(boolPrefixes) : HasPrefix(method, boolPrefixes[k]) THEN "bool"
  ELSE IF ContainsAny(lower, intPatterns) THEN "int"
  ELSE "object"

\* shouldMockInternal and inferReturnBehavior of every name of the sample binaries,
\* computed once.
shouldMockOf == [n \in NamePool |-> shouldMockInternal(n)]
behaviorOf == [n \in NamePool |-> inferReturnBehavior(n)]

\* makeMockHook(name, inferReturnBehavior(name))
mockHook(name) == Hook("mock", name, behaviorOf[name])

\* The symbols activateInternalMock hooks: not a PLT import, and shouldMockInternal.
internalMockNames(imports, symbols) ==
  {n \in DOMAIN symbols :
     symbols[n] # Zero64 /\ n \notin DOMAIN imports /\ shouldMockOf[n]}

activateInternalMock(hooks, imports, symbols) ==
  HookNames(hooks, symbols, internalMockNames(imports, symbols),
            [n \in DOMAIN symbols |-> mockHook(n)])

(***************************************************************************)
(* The emulator after New(): mapMemory attaches a hook at every vtable     *)
(* stub, callback stub and mock_obj2 stub address.  The model keeps the    *)
(* hooks of the slots in SlotSample.                                       *)
(***************************************************************************)
VtableStubCount == 256
SlotSample == {0, 2, VtableStubCount - 1}

mockObj == AddI(MockObjBase, 8192)
mockObj2 == AddI(MockObjBase, 12288)
vtableStubs == AddI(MockObjBase, 16384)
callbackStubs == AddI(MockObjBase, 20480)

NewAddrHooks ==
  LET vt == {AddI(vtableStubs, 4 * i) : i \in SlotSample}
      cb == {AddI(callbackStubs, 4 * i) : i \in SlotSample}
      m2 == {AddI(mockObj2, 4 * i) : i \in SlotSample}
  IN [a \in vt \cup cb \cup m2 |->
        IF a \in vt THEN Hook("vtable", <<>>, "")
        ELSE IF a \in cb THEN Hook("callback", <<>>, "")
        ELSE Hook("mockobj2", <<>>, "")]

(***************************************************************************)
(* The stub registry (internal/stubs).                                     *)
(***************************************************************************)
Emus == {"e1", "e2"}
NoEmu == "nil"

Debug == FALSE
InstallFallbacks == TRUE

\* StubDefs the stub packages register from init(); stop is the hook's result.
StubDefPool ==
  { [name |-> Sym.malloc, aliases |-> {}, category |-> "libc", stop |-> FALSE],
    [name |-> Sym.abort, aliases |-> {}, category |-> "libc", stop |-> TRUE] }

DetectorPool == {"cocos2dx", "unity-il2cpp", "internal-mock"}

DetectorPatterns(d) ==
  CASE d = "cocos2dx" -> cocos2dxPatterns
    [] d = "unity-il2cpp" -> unityPatterns
    [] d = "internal-mock" -> internalMockPatterns

\* The names a detector's Activate hooks, and the hooks after Activate.
DetectorNames(d, imports, symbols) ==
  CASE d = "cocos2dx" -> cocos2dxNames(symbols)
    [] d = "unity-il2cpp" -> unityNames(symbols)
    [] d = "internal-mock" -> internalMockNames(imports, symbols)

Activate(d, hooks, imports, symbols) ==
  CASE d = "cocos2dx" -> activateCocos2dx(hooks, imports, symbols)
    [] d = "unity-il2cpp" -> activateUnityIL2CPP(hooks, imports, symbols)
    [] d = "internal-mock" -> activateInternalMock(hooks, imports, symbols)

\* Whether Activate calls Registry.Log: the setters detectors when they installed
\* a hook, the mocker when Debug is set.
ActivateLogs(d, imports, symbols) ==
  CASE d = "cocos2dx" -> cocos2dxNames(symbols) # {}
    [] d = "unity-il2cpp" -> unityNames(symbols) # {}
    [] d = "internal-mock" -> Debug

matchPattern(name, pattern) ==
  LET n == Len(pattern)
      star == <<"*">>
      glob ==
        IF HasPrefix(pattern, star) /\ HasSuffix(pattern, star)
          THEN <<TRUE, Contains(name, SubSeq(pattern, 2, n - 1))>>
        ELSE IF HasPrefix(pattern, star)
          THEN <<TRUE, HasSuffix(name, SubSeq(pattern, 2, n))>>
        ELSE IF HasSuffix(pattern, star)
          THEN <<TRUE, HasPrefix(name, SubSeq(pattern, 1, n - 1))>>
        ELSE <<FALSE, FALSE>>
  IN IF Contains(pattern, star) /\ glob[1]
       THEN glob[2]
       ELSE name = pattern \/ Contains(name, pattern)

\* The names of the sample binaries that match some pattern of d, computed once.
matchingNames ==
  [d \in DetectorPool |->
     {n \in NamePool :
        \E k \in 1..Len(DetectorPatterns(d)) : matchPattern(n, DetectorPatterns(d)[k])}]

\* The test of checkDetectors: some symbol matches some pattern.
DetectorMatches(d, symbols) == \E n \in DOMAIN symbols : n \in matchingNames[d]

\* The merged symbol map of Install: imports first, then each map's new names.
RECURSIVE MergeSymbols(_, _)
MergeSymbols(all, maps) ==
  IF maps = <<>> THEN all
  ELSE LET syms == Head(maps)
           merged == [n \in DOMAIN all \cup DOMAIN syms |->
                        IF n \in DOMAIN all THEN all[n] ELSE syms[n]]
       IN MergeSymbols(merged, Tail(maps))

\* checkDetector without the test that skips an activated detector.
checkDetector_NoSkip(st, d, imports, symbols) ==
  IF DetectorMatches(d, symbols)
    THEN [activated |-> st.activated \cup {d},
          hooks |-> Activate(d, st.hooks, imports, symbols),
          ran |-> Append(st.ran, d)]
  ELSE st

\* One iteration of the loop of checkDetectors on detector d.
checkDetector(st, d, imports, symbols) ==
  IF d \in st.activated THEN st
  ELSE IF DetectorMatches(d, symbols)
    THEN [activated |-> st.activated \cup {d},
          hooks |-> Activate(d, st.hooks, imports, symbols),
          ran |-> Append(st.ran, d)]
  ELSE st

RECURSIVE checkDetectorsFrom(_, _, _, _, _)
checkDetectorsFrom(i, dets, st, imports, symbols) ==
  IF i > Len(dets) THEN st
  ELSE checkDetectorsFrom(i + 1, dets, checkDetector(st, dets[i], imports, symbols),
                          imports, symbols)

checkDetectors(dets, act, hooks, imports, symbols) ==
  checkDetectorsFrom(1, dets, [activated |-> act, hooks |-> hooks, ran |-> <<>>],
                     imports, symbols)

stubHook(def) == Hook("stub", def.name, IF def.stop THEN "stop" ELSE "ret")
fallbackHook(name) == Hook("fallback", name, "ret")

\* installStub over one symbol map: every registered name with a non-zero address
\* not yet seen gets its StubDef's hook.
RECURSIVE installPass(_, _, _)
installPass(st, defs, syms) ==
  LET cand == {n \in DOMAIN defs \cap DOMAIN syms :
                 syms[n] # Zero64 /\ syms[n] \notin st.seen}
  IN IF cand = {} THEN st
     ELSE LET n == CHOOSE x \in cand : TRUE
          IN installPass([hooks |-> HookAddress(st.hooks, syms[n], stubHook(defs[n])),
                          seen |-> st.seen \cup {syms[n]},
                          stubbed |-> st.stubbed \cup {syms[n]}],
                         defs, syms)

RECURSIVE installPasses(_, _, _)
installPasses(st, defs, maps) ==
  IF maps = <<>> THEN st
  ELSE installPasses(installPass(st, defs, Head(maps)), defs, Tail(maps))

\* The addresses that get a fallback stub.
fallbackNames(st, imports) ==
  {n \in DOMAIN imports :
     ~(imports[n] = Zero64 \/ imports[n] \in st.stubbed \/ imports[n] \in st.seen)}

installFallbacks(st, imports) ==
  IF InstallFallbacks
    THEN HookNames(st.hooks, imports, fallbackNames(st, imports),
                   [n \in DOMAIN imports |-> fallbackHook(n)])
    ELSE st.hooks

\* Registry.Install run alone: the registry fields and the emulator's hooks after it.
InstallResult(defs, dets, act, prevEmu, emu, hooks, imports, maps) ==
  LET act0 == IF prevEmu # emu THEN {} ELSE act
      allSymbols == MergeSymbols(imports, maps)
      cd == checkDetectors(dets, act0, hooks, imports, allSymbols)
      st0 == [hooks |-> cd.hooks, seen |-> {}, stubbed |-> {}]
      st1 == installPass(st0, defs, imports)
      st2 == installPasses(st1, defs, maps)
      fb == IF InstallFallbacks THEN fallbackNames(st2, imports) ELSE {}
  IN [activated |-> cd.activated,
      ran |-> cd.ran,
      hooks |-> installFallbacks(st2, imports),
      allSymbols |-> allSymbols,
      detHooked |-> {allSymbols[n] : n \in UNION {DetectorNames(cd.ran[k], imports, allSymbols) :
                                                   k \in 1..Len(cd.ran)}},
      stubHooked |-> st2.stubbed,
      fallbackHooked |-> {imports[n] : n \in fb},
      captured |-> UNION {DetectorNames(cd.ran[k], imports, allSymbols) :
                            k \in {j \in 1..Len(cd.ran) : cd.ran[j] # "internal-mock"}},
      mocked |-> UNION {DetectorNames(cd.ran[k], imports, allSymbols) :
                          k \in {j \in 1..Len(cd.ran) : cd.ran[j] = "internal-mock"}}]

(***************************************************************************)
(* Guest memory as the capture hooks read it.  A byte is an integer        *)
(* 0..255; mapped memory that nothing wrote reads as zero.                 *)
(***************************************************************************)
ImageSize == Word(1, 0)

MappedRegions ==
  { [base |-> StackBase, size |-> StackSize],
    [base |-> HeapBase, size |-> HeapSize],
    [base |-> LoadELFBase, size |-> ImageSize],
    [base |-> MockObjBase, size |-> Word(1, 0)],
    [base |-> LibcBase, size |-> LibcSize] }

\* The little-endian bytes of a uint64, and the uint64 at bytes k..k+7 of d.
LE64(a) ==
  <<a[4] % 256, a[4] \div 256, a[3] % 256, a[3] \div 256,
    a[2] % 256, a[2] \div 256, a[1] % 256, a[1] \div 256>>
FromLE64(d, k) ==
  <<d[k + 6] + 256 * d[k + 7], d[k + 4] + 256 * d[k + 5],
    d[k + 2] + 256 * d[k + 3], d[k] + 256 * d[k + 1]>>

\* What the guest has in memory: C strings on the heap (0x90000100,
\* 0x90000200), std::string objects of 24 bytes in the image's data
\* (0x40004000 and on), a pointer into no mapping, and C strings in the
\* image's data: "a", "bc", "ab", "c" at 0x40005000 and on, and "K7" in the
\* last page of the image (0x4000F800).
Ptr ==
  [cstrGood |-> Word(36864, 256),   cstrBad |-> Word(36864, 512),
   ssoGood |-> Word(16384, 16384),  ssoBad |-> Word(16384, 16416),
   heapRef |-> Word(16384, 16448),  longGood |-> Word(16384, 16480),
   longData |-> Word(16384, 16512), wild |-> Word(4096, 0),
   sA |-> Word(16384, 20480),       sBC |-> Word(16384, 20496),
   sAB |-> Word(16384, 20512),      sC |-> Word(16384, 20528),
   lastPage |-> Word(16384, 63488)]

GuestData ==
  LET p == Ptr IN
  { [at |-> p.cstrGood, bytes |-> <<75, 32, 126, 49>>],
    [at |-> p.cstrBad, bytes |-> <<75, 127>>],
    [at |-> p.ssoGood, bytes |-> <<4, 97, 98>>],
    [at |-> p.ssoBad, bytes |-> <<2, 31>>],
    [at |-> p.heapRef, bytes |-> LE64(p.cstrGood)],
    [at |-> p.longGood,
     bytes |-> <<33, 0, 0, 0, 0, 0, 0, 0, 2, 0, 0, 0, 0, 0, 0, 0>> \o LE64(p.longData)],
    [at |-> p.longData, bytes |-> <<90, 113, 1>>],
    [at |-> p.sA, bytes |-> <<97>>],
    [at |-> p.sBC, bytes |-> <<98, 99>>],
    [at |-> p.sAB, bytes |-> <<97, 98>>],
    [at |-> p.sC, bytes |-> <<99>>],
    [at |-> p.lastPage, bytes |-> <<75, 55>>] }

\* Memory holds the bytes of GuestData; every other mapped byte is zero.
cellsOf(data) ==
  UNION {{<<AddI(o.at, i - 1), o.bytes[i]>> : i \in 1..Len(o.bytes)} : o \in data}
memoryOf(cells) ==
  [a \in {c[1] : c \in cells} |-> (CHOOSE c \in cells : c[1] = a)[2]]
Memory == memoryOf(cellsOf(GuestData))

byteIn(mem, a) == IF a \in DOMAIN mem THEN mem[a] ELSE 0
ByteAt(a) == byteIn(Memory, a)

Mapped(a, n) ==
  \E r \in MappedRegions : Le(r.base, a) /\ Le(AddI(a, n), Add64(r.base, r.size))

NoBytes == [ok |-> FALSE, data |-> <<>>]

\* Emulator.MemRead: the bytes, or an error when the range is not mapped.
MemRead(a, n) ==
  CHOOSE rd \in
    { IF Mapped(p, n)
        THEN [ok |-> TRUE, data |-> [i \in 1..n |-> ByteAt(AddI(p, i - 1))]]
        ELSE NoBytes : p \in {a} } : TRUE

\* The bytes from a + k up to the first zero, at most maxLen - k of them.
consUnlessNul(b, rest) == IF b = 0 THEN <<>> ELSE <<b>> \o rest
RECURSIVE UntilNul(_, _, _)
UntilNul(a, k, maxLen) ==
  IF k >= maxLen THEN <<>>
  ELSE consUnlessNul(ByteAt(AddI(a, k)), UntilNul(a, k + 1, maxLen))

\* Emulator.MemReadString: maxLen bytes are read and cut at the first zero; the
\* callers drop the error, so a failed read is the empty string.
MemReadString(a, maxLen) ==
  CHOOSE str \in
    { IF Mapped(p, maxLen) THEN UntilNul(p, 0, maxLen) ELSE <<>> : p \in {a} } : TRUE

\* isPrintable ranges over the runes of s: a byte above 0x7F decodes to a rune
\* above 0x7E, so the test is the same on the bytes.
isPrintable(s) == Len(s) > 0 /\ \A i \in 1..Len(s) : s[i] >= 32 /\ s[i] <= 126

NoString == [ok |-> FALSE, str |-> <<>>]
stringIfPrintable(s) == IF isPrintable(s) THEN [ok |-> TRUE, str |-> s] ELSE NoString

\* The libstdc++ reading: the first qword, when it is a pointer into the
\* emulator's heap, points at the characters.
heapString(ptr) ==
  CHOOSE str \in
    { IF Le(HeapBase, p) /\ Lt(p, Add64(HeapBase, HeapSize))
        THEN MemReadString(p, 256) ELSE <<>> : p \in {ptr} } : TRUE

\* The libc++ long reading: length at 8..15, data pointer at 16..23.
longString(length, dataPtr) ==
  CHOOSE rd \in
    { IF Lt(Zero64, n) /\ Le(n, FromInt(256)) /\ p # Zero64
        THEN MemRead(p, n[4]) ELSE NoBytes
      : n \in {length}, p \in {dataPtr} } : TRUE

\* The libc++ short reading: length in the first byte, characters after it.
shortString(data, length) ==
  IF length > 0 /\ length <= 22
    THEN stringIfPrintable(SubSeq(data, 2, 1 + length)) ELSE NoString

\* readStdString once the 24 bytes of the object are read.
stdStringOf(data) ==
  CHOOSE res \in
    { IF Len(heapStr) > 0 /\ isPrintable(heapStr)
        THEN [ok |-> TRUE, str |-> heapStr]
      ELSE IF data[1] % 2 = 0 THEN shortString(data, data[1] \div 2)
      ELSE IF long.ok THEN stringIfPrintable(long.data)
      ELSE NoString
      : heapStr \in {heapString(FromLE64(data, 1))},
        long \in {longString(FromLE64(data, 9), FromLE64(data, 17))} } : TRUE

stdStringIn(rd) == IF rd.ok THEN stdStringOf(rd.data) ELSE NoString

readStdString(addr) ==
  IF addr = Zero64 THEN NoString ELSE stdStringIn(MemRead(addr, 24))

\* Register values the guest passes: small integers and pointers.
RegPool == {Zero64, FromInt(4), Ptr.cstrGood, Ptr.cstrBad, Ptr.ssoGood, Ptr.heapRef}
StringRefPool == RegPool \cup {Ptr.ssoBad, Ptr.longGood, Ptr.wild}

\* Every value a register holds in the runs below: the above, and what the
\* driver and the hooks put in X0 and X1.
GuestValues == StringRefPool \cup {mockObj, AddI(mockObj, 256), HeapBase, FromInt(1)}

\* The readers over the register values, each computed once.
readStdStringAt == [a \in GuestValues |-> readStdString(a)]
MemReadStringAt ==
  [a \in GuestValues |-> [n \in {128, 256} |-> MemReadString(a, n)]]

(***************************************************************************)
(* The capture hooks of the setters package and of the driver.  Each is    *)
(* the sequence of CapturedKeys its firing appends, given the registers it *)
(* reads and the PC it fires at.                                           *)
(***************************************************************************)
CapturedKey(value, source, address, keyType, riskLevel) ==
  [value |-> value, source |-> source, address |-> address,
   keyType |-> keyType, riskLevel |-> riskLevel]

SignatureSuffix == <<"[","s","i","g","n","a","t","u","r","e","]">>

MaxUserPtr == <<28672, 0, 0, 0>>
MinUserPtr == FromInt(4096)

\* `if str, _ := emu.MemReadString(ptr, n); len(str) > 0 && isPrintable(str)`:
\* the string, or the empty key.
keyIfPrintable(str) ==
  CHOOSE key \in {IF Len(s) > 0 /\ isPrintable(s) THEN s ELSE <<>> : s \in {str}} : TRUE
keyAt(ptr, n) == keyIfPrintable(MemReadStringAt[ptr][n])

\* `if str, ok := readStdString(emu, x); ok && len(str) > 0 && isPrintable(str)`
keyOf(s) == IF s.ok THEN keyIfPrintable(s.str) ELSE <<>>
stdKeyAt(x) == keyOf(readStdStringAt[x])

\* `if key == "" { ... }`: a later attempt counts only while the key is empty.
orElse(key, later) == IF key # <<>> THEN key ELSE later

isLuaSetterSymbol(name) ==
  /\ ContainsAny(ToLower(name), << <<"s","e","t","x","x","t","e","a","k","e","y">>, <<"s","e","t","x","x","t","e","a">> >>)
  /\ ~Contains(name, <<"b","a","s","i","c","_","s","t","r","i","n","g">>)

signatureKey(sign, funcName, pcv) ==
  IF sign = <<>> THEN <<>>
  ELSE <<CapturedKey(sign, funcName \o SignatureSuffix, pcv, "signature", "low")>>

\* The two captures with the signature's first.
keyWithSignature_SignatureFirst(key, sign, funcName, pcv) ==
  IF key = <<>> THEN <<>>
  ELSE signatureKey(sign, funcName, pcv) \o
       <<CapturedKey(key, funcName, pcv, "xxtea", "critical")>>

\* The xxtea capture of key, followed by the signature's when there is one;
\* nothing when the key is empty.
keyWithSignature(key, sign, funcName, pcv) ==
  IF key = <<>> THEN <<>>
  ELSE <<CapturedKey(key, funcName, pcv, "xxtea", "critical")>> \o
       signatureKey(sign, funcName, pcv)

xxteaFallback(ptr) ==
  IF ptr = Zero64 \/ Lt(ptr, MinUserPtr) \/ Lt(MaxUserPtr, ptr)
    THEN <<>> ELSE keyAt(ptr, 256)

makeXXTeaKeyHook(funcName, x0, x1, x2, x3, x4, pcv) ==
  keyWithSignature(
    orElse(orElse(IF ContainsAny(funcName, << <<"b","a","s","i","c","_","s","t","r","i","n","g">>, <<"j","s","b","_","s","e","t">> >>)
                    THEN stdKeyAt(x0) ELSE <<>>,
                  IF isLuaSetterSymbol(funcName)
                    THEN keyAt(IF Lt(x1, FromInt(256)) /\ Lt(Zero64, x1) THEN x0 ELSE x1, 128)
                    ELSE <<>>),
           orElse(orElse(xxteaFallback(x0), xxteaFallback(x1)), xxteaFallback(x2))),
    IF Lt(MinUserPtr, x3) /\ Lt(Zero64, x4) /\ Lt(x4, FromInt(256))
      THEN keyAt(x3, 128) ELSE <<>>,
    funcName, pcv)

genericKey(ptr) ==
  IF ptr = Zero64 \/ Lt(MaxUserPtr, ptr) THEN <<>> ELSE keyAt(ptr, 256)

genericCapture(key, funcName, keyType, pcv) ==
  IF key = <<>> THEN <<>> ELSE <<CapturedKey(key, funcName, pcv, keyType, "high")>>

makeGenericKeyHook(funcName, keyType, x0, x1, x2, pcv) ==
  genericCapture(orElse(orElse(genericKey(x0), genericKey(x1)), genericKey(x2)),
                 funcName, keyType, pcv)

makeStdStringSetterHook(funcName, x1, x2, pcv) ==
  keyWithSignature(
    orElse(stdKeyAt(x1),
           IF Lt(MinUserPtr, x1) /\ Lt(x1, MaxUserPtr) THEN keyAt(x1, 128) ELSE <<>>),
    stdKeyAt(x2), funcName, pcv)

\* What a hook of one of the CaptureKinds appends when it fires with registers x.
captureHook(h, x, pcv) ==
  CASE h.kind = "xxtea" -> makeXXTeaKeyHook(h.fn, x[0], x[1], x[2], x[3], x[4], pcv)
    [] h.kind = "stdstring" -> makeStdStringSetterHook(h.fn, x[1], x[2], pcv)
    [] h.kind = "generic" -> makeGenericKeyHook(h.fn, h.arg, x[0], x[1], x[2], pcv)
    [] OTHER -> <<>>

\* CaptureKeyDirect: the key type comes from the source; nothing looks at value.
CaptureKeyDirect(value, source, address) ==
  LET sourceLower == ToLower(source)
      keyType == IF Contains(sourceLower, <<"x","x","t","e","a">>) \/ Contains(sourceLower, <<"x","t","e","a">>)
                   THEN "xxtea"
                 ELSE IF Contains(sourceLower, <<"s","i","g","n","a","t","u","r","e">>) THEN "signature"
                 ELSE IF Contains(sourceLower, <<"c","r","y","p","t","o">>) \/ Contains(sourceLower, <<"a","e","s">>)
                   THEN "crypto"
                 ELSE "unknown"
  IN CapturedKey(value, source, address, keyType, "critical")

\* The driver's test before CaptureKeyDirect: only a non-empty printable-ASCII
\* string may be captured.
isPrintableKey(s) == Len(s) > 0 /\ \A i \in 1..Len(s) : s[i] >= 32 /\ s[i] <= 126

setterPatterns ==
  << <<"x","x","t","e","a","k","e","y">>, <<"c","r","y","p","t","o","k","e","y">>, <<"e","n","c","r","y","p","t","i","o","n","k","e","y">>, <<"d","e","c","r","y","p","t","i","o","n","k","e","y">>, <<"s","e","c","r","e","t","k","e","y">> >>

isSetterSymbol(symName, patterns) ==
  symName # <<>> /\ ContainsAny(ToLower(symName), patterns)

\* The slots of the binary's vtables (ELFInfo.VTables).
VTableSlots ==
  { [SlotIndex |-> 0, SymName |-> Sym.inst],
    [SlotIndex |-> 2, SymName |-> Sym.lua],
    [SlotIndex |-> VtableStubCount - 1, SymName |-> Sym.il2] }

setterSlots ==
  LET setters == {s \in VTableSlots : s.SlotIndex >= 0 /\ isSetterSymbol(s.SymName, setterPatterns)}
  IN [i \in {s.SlotIndex : s \in setters} |->
        (CHOOSE s \in setters : s.SlotIndex = i).SymName]

Digits == <<"0","1","2","3","4","5","6","7","8","9">>
RECURSIVE Itoa(_)
Itoa(n) == IF n < 10 THEN <<Digits[n + 1]>> ELSE Itoa(n \div 10) \o <<Digits[(n % 10) + 1]>>

\* fmt.Sprintf("vtable[%d]->%s", slotIdx, symName)
vtableSource(slotIdx, symName) ==
  <<"v","t","a","b","l","e","[">> \o Itoa(slotIdx) \o <<"]","-",">">> \o symName

vtableSources == [i \in DOMAIN setterSlots |-> vtableSource(i, setterSlots[i])]

\* `if n > 0 && n < 256 && p > 0x1000 { if bytes, err := e.MemRead(p, n); err == nil`
vtableRead(p, n) ==
  IF Lt(Zero64, n) /\ Lt(n, FromInt(256)) /\ Lt(MinUserPtr, p)
    THEN MemRead(p, n[4]) ELSE NoBytes

vtableCapture(rd, source, pcv) ==
  IF rd.ok /\ isPrintableKey(rd.data)
    THEN <<CaptureKeyDirect(rd.data, source, pcv)>> ELSE <<>>

\* The hook installVtableStubHooks attaches at vtable stub slotIdx.
vtableStubHook(slotIdx, x1, x2, x3, x4, pcv) ==
  IF slotIdx \notin DOMAIN setterSlots THEN <<>>
  ELSE vtableCapture(vtableRead(x1, x2), vtableSources[slotIdx], pcv) \o
       vtableCapture(vtableRead(x3, x4), vtableSources[slotIdx] \o SignatureSuffix, pcv)

(***************************************************************************)
(* State of the registry and of the emulators it installs into.            *)
(***************************************************************************)
VARIABLES
  stubs,        \* Registry.stubs: symbol name -> StubDef
  detectors,    \* Registry.detectors, in registration order (names)
  activated,    \* Registry.activated: the names marked activated
  regEmu,       \* Registry.emu
  addrHooks,    \* Emulator.addrHooks of each emulator
  nInstalls,    \* Install calls made
  lastInstall,  \* history: what the last Install did
  epochActs,    \* history: Activate calls per detector since the registry was rebound
  epochMatched  \* history: detectors some Install matched since the registry was rebound

regVars == <<stubs, detectors, activated, regEmu>>
histVars == <<nInstalls, lastInstall, epochActs, epochMatched>>
seqVars == <<regVars, addrHooks, histVars>>

(***************************************************************************)
(* State of callers that use the registry concurrently.                    *)
(***************************************************************************)
VARIABLES
  pc,           \* where each thread is inside its call ("idle": between calls)
  arg,          \* the argument of the call a thread is in
  idx,          \* the index of checkDetectors' loop over r.detectors
  mu,           \* Registry.mu
  detectorsMu,  \* Registry.detectorsMu
  callsMade,    \* calls each thread has begun
  matchedAt,    \* history: the detectors that matched in a thread's last Install
  installed,    \* history: whether a thread has returned from an Install
  activatedOn   \* history: per emulator, the detectors whose Activate ran on it

concVars == <<pc, arg, idx, mu, detectorsMu, callsMade, matchedAt, installed,
              activatedOn>>

(***************************************************************************)
(* The setters package's list of captured keys.                            *)
(***************************************************************************)
VARIABLES
  capturedKeys  \* setters.capturedKeys, in capture order

capVars == <<capturedKeys>>

(***************************************************************************)
(* One run of the driver (cmd/galago runTrace) and of the emulator under   *)
(* it.                                                                     *)
(***************************************************************************)
VARIABLES
  dpc,          \* where the process is: package init, runTrace, the engine
  guest,        \* the binary runTrace was given
  fail,         \* which of emulator.New and LoadELF failed
  count,        \* runTrace's instruction counter
  runErr,       \* what emu.RunFrom returned
  result,       \* what runTrace returned
  reported,     \* the keys runTrace reported
  gpc,          \* guest PC
  lr,           \* guest LR
  x,            \* guest X0..X4
  stopped,      \* Emulator.stopped
  lastCb,       \* what the last callback of setupHooks did
  stopAt,       \* the address whose hook returned stop = true in this run
  afterStop,    \* hooks invoked in this run after a hook returned stop = true
  extra         \* callbacks the engine delivered after Stop was called

driverVars == <<dpc, guest, fail, count, runErr, result, reported>>
engineVars == <<gpc, lr, x, stopped>>
ghostVars == <<lastCb, stopAt, afterStop, extra>>
runVars == <<driverVars, engineVars, ghostVars>>

(***************************************************************************)
(* One emulator's heap and the memory its hooks write.                     *)
(***************************************************************************)
VARIABLES
  heapPtr,      \* Emulator.heapPtr
  panicked,     \* Malloc panicked: the process is gone
  gmem,         \* guest memory the hooks wrote: address -> byte
  blocks,       \* history: the blocks Malloc returned, in order
  vcall         \* history: the last call of a vtable stub, hp the heap pointer before it

heapVars == <<heapPtr, panicked, gmem, blocks, vcall>>

(***************************************************************************)
(* The captured-keys list as Go keeps it: a slice over a backing array,    *)
(* guarded by capturedKeysMu, and the slices GetCapturedKeys handed out.   *)
(***************************************************************************)
VARIABLES
  karr,         \* the backing arrays allocated so far
  klist,        \* the slice capturedKeys: its array (0: nil) and length
  kmu,          \* capturedKeysMu: the thread holding it
  kpc,          \* the call each thread is in, holding the mutex
  kret,         \* the slice GetCapturedKeys last returned to each thread
  kcalls,       \* calls made
  kappended,    \* history: the keys captured since the last ClearCapturedKeys
  kgets         \* history: the results of GetCapturedKeys since then, in order

keysVars == <<karr, klist, kmu, kpc, kret, kcalls, kappended, kgets>>

(***************************************************************************)
(* The stubs that keep state: the static-initialisation guards of the      *)
(* cxxabi package and one JNI Env.                                         *)
(***************************************************************************)
VARIABLES
  guardState,     \* cxxabi guardState: the guard addresses marked initialized
  jniStrings,     \* Env.jniStrings: jstring reference -> string
  classRefs,      \* Env.classRefs: class name -> reference
  methodRefs,     \* Env.methodRefs: key -> method ID
  nextRef,        \* Env.nextStringRef, nextClassRef, nextMethodRef
  jcalls,         \* stub calls made
  acquired,       \* history: per guard address, what each acquire returned
  jclasses,       \* history: <<class name, reference>> of every FindClass
  jmethods,       \* history: <<static, name, sig, ID>> of every Get(Static)MethodID
  jorig,          \* history: jstring reference -> the C string NewStringUTF was given
  jlast           \* history: the last JNI call and its result

stubVars == <<guardState, jniStrings, classRefs, methodRefs, nextRef, jcalls,
              acquired, jclasses, jmethods, jorig, jlast>>

\* The loaded ELFInfo (Entry, Symbols) and the FindEntryPoint calls made on it.
VARIABLES info, picks
entryVars == <<info, picks>>

(***************************************************************************)
(* libc++ std::string objects the cxxabi stubs wrote.                      *)
(***************************************************************************)
VARIABLES
  ssoObjs,      \* history: object address -> the string last written to it
  ssoWrites     \* WriteSSOString calls made

ssoVars == <<ssoObjs, ssoWrites>>

(***************************************************************************)
(* The image's relocation table and the memory applyRelocations wrote.     *)
(***************************************************************************)
VARIABLES
  relocs,       \* the RELA entries of the loaded file, in file order
  rmem,         \* guest memory as applyRelocations left it: address -> byte
  rpasses,      \* applications of the table so far
  rfirst        \* history: rmem after the first application

relocVars == <<relocs, rmem, rpasses, rfirst>>

(***************************************************************************)
(* The mock object graph emulator.New builds, and a guest that walks it.   *)
(***************************************************************************)
VARIABLES
  mmem,         \* guest memory the hooks wrote since emulator.New: address relative
                \* to MockObjBase -> byte
  mptr,         \* the pointer the guest holds
  mdepth,       \* loads the guest made to get it, from mock_obj
  mret,         \* history: the last call's outcome
  mcalls        \* mock hooks run so far

mockVars == <<mmem, mptr, mdepth, mret, mcalls>>

(***************************************************************************)
(* The instructions at the PLT entries of the loaded image.                *)
(***************************************************************************)
VARIABLES
  pltInsn       \* per emulator: PLT entry address -> the 4 bytes at it

pltVars == <<pltInsn>>

(***************************************************************************)
(* The JNI singleton of package jni and the registry fields it hangs on.   *)
(***************************************************************************)
VARIABLES
  currentEnv,   \* jni.currentEnv: NoEnv, or the Env
  jniEmu,       \* Registry.emu
  jniActivated, \* whether Registry.activated holds "jni"
  jniMemory,    \* the emulators whose memory holds JNI vtables
  jniInstall,   \* history: the last Install
  jniGot        \* history: the last GetJavaVM or GetJNIEnv

jniVars == <<currentEnv, jniEmu, jniActivated, jniMemory, jniInstall, jniGot>>

lateVars == <<ssoVars, relocVars, mockVars, pltVars, jniVars>>

extVars == <<heapVars, keysVars, stubVars, entryVars, lateVars>>

vars == <<seqVars, concVars, capVars, runVars, extVars>>

\* What the sequential callers leave alone, what the concurrent ones do, what
\* the capture hooks do, and what a run of the driver does.
nonSeqVars == <<concVars, capVars, runVars, extVars>>
nonConcVars == <<histVars, capVars, runVars, extVars>>
nonCapVars == <<seqVars, concVars, runVars, extVars>>
nonRunVars == <<histVars, concVars, extVars>>
nonHeapVars == <<concVars, runVars, keysVars, stubVars, entryVars, lateVars>>
nonKeysVars == <<seqVars, concVars, runVars, heapVars, stubVars, entryVars, lateVars>>
nonStubVars == <<seqVars, concVars, capVars, runVars, keysVars, entryVars, lateVars>>
nonSsoVars == <<seqVars, concVars, capVars, runVars, keysVars, stubVars, entryVars, relocVars, mockVars, pltVars, jniVars>>
nonRelocVars == <<seqVars, concVars, capVars, runVars, heapVars, keysVars, stubVars, entryVars, ssoVars, mockVars, pltVars, jniVars>>
nonJniVars == <<seqVars, concVars, capVars, runVars, heapVars, keysVars, stubVars, entryVars, ssoVars, relocVars, mockVars, pltVars>>
nonMockVars == <<seqVars, concVars, capVars, runVars, heapVars, keysVars, stubVars, entryVars, ssoVars, relocVars, pltVars, jniVars>>

MaxInstalls == 2

NoInstall ==
  [emu |-> NoEmu, rebound |-> FALSE, before |-> {}, matched |-> {}, ran |-> <<>>,
   detHooked |-> {}, stubHooked |-> {}, fallbackHooked |-> {},
   captured |-> {}, mocked |-> {}, symbols |-> [n \in {} |-> Zero64]]

\* NewRegistry(), and New() for each emulator.
InitRegistry ==
  /\ stubs = [n \in {} |-> TRUE]
  /\ detectors = <<>>
  /\ activated = {}
  /\ regEmu = NoEmu
  /\ addrHooks = [e \in Emus |-> NewAddrHooks]
  /\ nInstalls = 0
  /\ lastInstall = NoInstall
  /\ epochActs = [d \in DetectorPool |-> 0]
  /\ epochMatched = [d \in DetectorPool |-> FALSE]

Threads == {"t1", "t2"}
EmuOf == [t \in Threads |-> IF t = "t1" THEN "e1" ELSE "e2"]

\* A sync.RWMutex: the writer holding it, the readers holding it, and the
\* writers that have called Lock and wait.
FreeMutex == [w |-> "none", r |-> {}, p |-> {}]

InitConc ==
  /\ pc = [t \in Threads |-> "idle"]
  /\ arg = [t \in Threads |-> "none"]
  /\ idx = [t \in Threads |-> 0]
  /\ mu = FreeMutex
  /\ detectorsMu = FreeMutex
  /\ callsMade = [t \in Threads |-> 0]
  /\ matchedAt = [t \in Threads |-> {}]
  /\ installed = [t \in Threads |-> FALSE]
  /\ activatedOn = [e \in Emus |-> {}]

InitCapture == capturedKeys = <<>>

NoGuest == [bin |-> [imports |-> {}, internal |-> {}], code |-> <<>>, elf |-> FALSE]
NoCallback == [addr |-> Zero64, ranAddr |-> FALSE, ranCode |-> FALSE, stop |-> FALSE]
NoAddr == <<>>

InitRun ==
  /\ dpc = "start"
  /\ guest = NoGuest
  /\ fail = [new |-> FALSE, load |-> FALSE]
  /\ count = 0
  /\ runErr = "none"
  /\ result = "none"
  /\ reported = <<>>
  /\ gpc = Zero64
  /\ lr = Zero64
  /\ x = [r \in 0..4 |-> Zero64]
  /\ stopped = FALSE
  /\ lastCb = NoCallback
  /\ stopAt = NoAddr
  /\ afterStop = 0
  /\ extra = 0

NoCall == [kind |-> "none", x8 |-> Zero64, x0 |-> Zero64, stop |-> FALSE, hp |-> Zero64]

\* emulator.New: the heap pointer at HeapBase.
InitHeap ==
  /\ heapPtr = HeapBase
  /\ panicked = FALSE
  /\ gmem = [a \in {} |-> 0]
  /\ blocks = <<>>
  /\ vcall = NoCall

NilSlice == [arr |-> 0, len |-> 0]

\* var capturedKeys []CapturedKey: nil.
InitKeys ==
  /\ karr = <<>>
  /\ klist = NilSlice
  /\ kmu = "none"
  /\ kpc = [t \in Threads |-> "idle"]
  /\ kret = [t \in Threads |-> NilSlice]
  /\ kcalls = 0
  /\ kappended = <<>>
  /\ kgets = <<>>

GuardPool == {AddI(HeapBase, 4096), AddI(HeapBase, 4104)}
NoJniCall == [fn |-> "none", ref |-> Zero64, isCopy |-> Zero64, x0 |-> Zero64]

\* The guardState map of package cxxabi, and NewEnv.
InitStubs ==
  /\ guardState = {}
  /\ jniStrings = [r \in {} |-> <<>>]
  /\ classRefs = [n \in {} |-> Zero64]
  /\ methodRefs = [k \in {} |-> Zero64]
  /\ nextRef = [string |-> FromInt(4096), class |-> FromInt(8192), method |-> FromInt(12288)]
  /\ jcalls = 0
  /\ acquired = [g \in GuardPool |-> <<>>]
  /\ jclasses = {}
  /\ jmethods = {}
  /\ jorig = [r \in {} |-> <<>>]
  /\ jlast = NoJniCall

\* No image loaded yet.
InitEntry ==
  /\ info = [loaded |-> FALSE, Entry |-> Zero64, Symbols |-> <<>>]
  /\ picks = <<>>

\* A std::string object the caller has on its stack, not yet written.
StackObject == AddI(StackBase, 4096)
Unwritten == [written |-> FALSE, str |-> <<>>]

InitSso ==
  /\ ssoObjs = (StackObject :> Unwritten)
  /\ ssoWrites = 0

\* No file read yet.
InitReloc ==
  /\ relocs = <<>>
  /\ rmem = [a \in {} |-> 0]
  /\ rpasses = 0
  /\ rfirst = [a \in {} |-> 0]

mockTypeInfo == AddI(MockObjBase, 2048)
mockVtablePrefix == AddI(MockObjBase, 4096)
mockVtable == AddI(MockObjBase, 4112)

\* ARM64 RET = 0xd65f03c0
retInsn == <<192, 3, 95, 214>>

\* An address of the stack or the mock region, relative to MockObjBase.
rel(a) == (a[3] - MockObjBase[3]) * WordMod + a[4] - MockObjBase[4]

\* e.mu.MemWrite(a, bytes) into a mapped range.
put(mem, a, bytes) ==
  [o \in rel(a)..(rel(a) + Len(bytes) - 1) |-> bytes[o - rel(a) + 1]] @@ mem

\* 0. RTTI: the type_info name, the type_info and the prefix of the vtable.
rttiSetup(mem) ==
  put(put(put(mem, AddI(mockTypeInfo, 256), <<49, 50, 95, 77, 111, 99, 107, 79, 98, 106, 101, 99, 116, 0>>),
          mockTypeInfo, LE64(mockVtable) \o LE64(AddI(mockTypeInfo, 256))),
      mockVtablePrefix, LE64(Zero64) \o LE64(mockTypeInfo))

\* for i := lo; i < hi; i++ { e.mu.MemWrite(a + stride*i, body[i]) }, each
\* body[i] of stride bytes: the writes do not overlap one another.
forEach(mem, a, lo, hi, stride, body) ==
  [o \in (rel(a) + stride * lo)..(rel(a) + stride * hi - 1) |->
     body[(o - rel(a)) \div stride][((o - rel(a)) % stride) + 1]] @@ mem

\* 1. for i < 256: RET at vtableStubs + 4i, mockVtable[i] = its address.
vtableStubLoop(mem) ==
  forEach(forEach(mem, vtableStubs, 0, VtableStubCount, 4,
                  [i \in 0..(VtableStubCount - 1) |-> retInsn]),
          mockVtable, 0, VtableStubCount, 8,
          [i \in 0..(VtableStubCount - 1) |-> LE64(AddI(vtableStubs, 4 * i))])

\* 2. and 3. for i < 256: RET at base + 4i.
retLoop(mem, base) ==
  forEach(mem, base, 0, VtableStubCount, 4, [i \in 0..(VtableStubCount - 1) |-> retInsn])

\* 5. for 1 <= i < 256: mock_obj[i*8] = mock_obj2, mock_obj2[i*8] =
\* callback_stub[i % 256].
memberLoop(mem) ==
  forEach(forEach(mem, mockObj, 1, VtableStubCount, 8,
                  [i \in 1..(VtableStubCount - 1) |-> LE64(mockObj2)]),
          mockObj2, 1, VtableStubCount, 8,
          [i \in 1..(VtableStubCount - 1) |->
             LE64(AddI(callbackStubs, (i % VtableStubCount) * 4))])

restoreVtable_Skip(mem) == mem

\* 6. Restore vtable pointer at offset 0 of mock_obj2.
restoreVtable(mem) == put(mem, mockObj2, LE64(mockVtable))

\* mapMemory, from the RTTI structures on.
mapMemory ==
  restoreVtable(
    memberLoop(
      put(retLoop(retLoop(vtableStubLoop(rttiSetup(<<>>)), callbackStubs), mockObj2),
          mockObj, LE64(mockVtable))))

\* e.addrHooks[stubAddr] = makeVtableStubHook(e), makeCallbackStubHook(e),
\* makeMockObj2CallHook(e, mockObj), for i < 256.
mapMemoryHooks ==
  [o \in {rel(mockObj2) + 4 * i : i \in 0..(VtableStubCount - 1)} |-> "mockobj2"]
  @@ [o \in {rel(callbackStubs) + 4 * i : i \in 0..(VtableStubCount - 1)} |-> "callback"]
  @@ [o \in {rel(vtableStubs) + 4 * i : i \in 0..(VtableStubCount - 1)} |-> "vtable"]

NoMockCall == [op |-> "none", arg |-> "", x0 |-> Zero64, returned |-> FALSE]

\* After emulator.New, whose memory is mapMemory and whose hooks are
\* mapMemoryHooks: the guest holds mock_obj.
InitMock ==
  /\ mmem = <<>>
  /\ mptr = mockObj
  /\ mdepth = 0
  /\ mret = NoMockCall
  /\ mcalls = 0

\* The first instruction of a PLT entry as the linker emits it, adrp x16,
\* which LoadELF copies with the segment.
pltEntryInsn == <<16, 0, 0, 144>>

ImportAddrs == {AddrOf[n] : n \in UNION {bin.imports : bin \in Binaries}}

\* After emulator.New and LoadELF.
InitPlt == pltInsn = [e \in Emus |-> [a \in ImportAddrs |-> pltEntryInsn]]

NoEnv == [emu |-> NoEmu]
NoJniInstall == [emu |-> NoEmu, new |-> FALSE, matched |-> FALSE]
NoJniGot == [fn |-> "none", ptr |-> 0, emu |-> NoEmu]

\* Package init of jni: the detector is registered, nothing is activated.
InitJni ==
  /\ currentEnv = NoEnv
  /\ jniEmu = NoEmu
  /\ jniActivated = FALSE
  /\ jniMemory = {}
  /\ jniInstall = NoJniInstall
  /\ jniGot = NoJniGot

InitLate == InitSso /\ InitReloc /\ InitMock /\ InitPlt /\ InitJni

Init ==
  /\ InitRegistry /\ InitConc /\ InitCapture /\ InitRun /\ InitHeap /\ InitKeys /\ InitStubs
  /\ InitEntry /\ InitLate

Registered == {detectors[k] : k \in 1..Len(detectors)}

\* Registry.Register: the name and every alias map to the def.
RegisterResult(defs, def) ==
  [n \in DOMAIN defs \cup {def.name} \cup def.aliases |->
     IF n = def.name \/ n \in def.aliases THEN def ELSE defs[n]]

Register(def) ==
  /\ stubs' = RegisterResult(stubs, def)
  /\ UNCHANGED <<detectors, activated, regEmu, addrHooks, histVars, nonSeqVars>>

\* Registry.RegisterDetector; each detector of the repository registers once.
RegisterDetector(d) ==
  /\ d \notin Registered
  /\ detectors' = Append(detectors, d)
  /\ UNCHANGED <<stubs, activated, regEmu, addrHooks, histVars, nonSeqVars>>

RanSet(r) == {r.ran[k] : k \in 1..Len(r.ran)}

\* Registry.Install, run to completion by one caller.
Install(e, imports, maps) ==
  /\ nInstalls < MaxInstalls
  /\ \E r \in {InstallResult(stubs, detectors, activated, regEmu, e, addrHooks[e],
                             imports, maps)} :
       LET rebound == regEmu # e
           ran == RanSet(r)
           matched == {d \in Registered : DetectorMatches(d, r.allSymbols)}
       IN /\ nInstalls' = nInstalls + 1
          /\ regEmu' = e
          /\ activated' = r.activated
          /\ addrHooks' = [addrHooks EXCEPT ![e] = r.hooks]
          /\ lastInstall' = [emu |-> e, rebound |-> rebound, before |-> activated,
                             matched |-> matched, ran |-> r.ran,
                             detHooked |-> r.detHooked, stubHooked |-> r.stubHooked,
                             fallbackHooked |-> r.fallbackHooked,
                             captured |-> r.captured, mocked |-> r.mocked,
                             symbols |-> r.allSymbols]
          /\ epochActs' = [d \in DetectorPool |->
                             (IF rebound THEN 0 ELSE epochActs[d])
                             + (IF d \in ran THEN 1 ELSE 0)]
          /\ epochMatched' = [d \in DetectorPool |->
                                (~rebound /\ epochMatched[d]) \/ d \in matched]
  /\ UNCHANGED <<stubs, detectors, nonSeqVars>>

\* The packages' registrations, and the driver's call
\* Install(emu, info.Imports, info.Symbols).
Next ==
  \/ \E def \in StubDefPool : Register(def)
  \/ \E d \in DetectorPool : RegisterDetector(d)
  \/ \E e \in Emus, bin \in Binaries : Install(e, ImportsOf(bin), <<SymbolsOf(bin)>>)

Spec == Init /\ [][Next]_vars

(***************************************************************************)
(* Properties of Install.                                                  *)
(***************************************************************************)
HookAt(e, a) == addrHooks[e][a]

\* C2: a fallback stub goes only to an import address that has no hook yet: every
\* address a StubDef pass or a detector's Activate hooked during an Install is not
\* given a fallback, and still carries that hook when the Install returns.
C2_FallbackOnlyWhereUnhooked ==
  lastInstall.emu # NoEmu =>
    \A a \in lastInstall.detHooked \cup lastInstall.stubHooked :
      /\ a \notin lastInstall.fallbackHooked
      /\ HookAt(lastInstall.emu, a).kind # "fallback"

\* C3: the mocker installs no mock hook on a symbol the capture detectors hook, so
\* after an Install every symbol a capture detector hooked carries a capture hook.
C3_MockerSkipsCaptureSymbols ==
  lastInstall.emu # NoEmu =>
    /\ lastInstall.captured \cap lastInstall.mocked = {}
    /\ \A n \in lastInstall.captured \ DOMAIN stubs :
         lastInstall.symbols[n] \notin lastInstall.fallbackHooked =>
           HookAt(lastInstall.emu, lastInstall.symbols[n]).kind \in CaptureKinds

\* C4: while the registry stays bound to one emulator each detector's Activate
\* runs at most once, in the first Install whose merged symbols match it; an
\* Install with another emulator forgets the activations, so every matching
\* detector is activated again.
C4_ActivateOncePerEmulator ==
  /\ \A d \in DetectorPool :
       /\ epochActs[d] <= 1
       /\ (d \in activated) = (epochActs[d] = 1)
       /\ (d \in activated) = epochMatched[d]
  /\ lastInstall.emu # NoEmu =>
       RanSet(lastInstall) =
         IF lastInstall.rebound THEN lastInstall.matched
         ELSE lastInstall.matched \ lastInstall.before

\* A second Install with the same emulator matched a detector the first one
\* activated, and did not activate it again.
C4_Witness ==
  /\ nInstalls = 2
  /\ ~lastInstall.rebound
  /\ lastInstall.matched \cap lastInstall.before # {}
  /\ \A d \in lastInstall.matched \cap lastInstall.before : epochActs[d] = 1

(***************************************************************************)
(* The registry used by two threads.  Every step is one acquisition of a   *)
(* mutex together with the code that follows it up to the next acquisition.*)
(***************************************************************************)
MaxCalls == 2

\* The binaries the concurrent callers install.
ConcBinaries == {b \in Binaries : Sym.inst \in b.internal}

\* sync.RWMutex: Lock waits for the writer and the readers to leave, RLock for
\* the writer and for every writer that has called Lock.
Request(l, t) == [l EXCEPT !.p = @ \cup {t}]
CanLock(l) == l.w = "none" /\ l.r = {}
Lock(l, t) == [l EXCEPT !.w = t, !.p = @ \ {t}]
Unlock(l) == [l EXCEPT !.w = "none"]
CanRLock(l) == l.w = "none" /\ l.p = {}
RLock(l, t) == [l EXCEPT !.r = @ \cup {t}]
RUnlock(l, t) == [l EXCEPT !.r = @ \ {t}]

Begin(t, label, op, val) ==
  /\ pc[t] = "idle"
  /\ callsMade[t] < MaxCalls
  /\ callsMade' = [callsMade EXCEPT ![t] = @ + 1]
  /\ pc' = [pc EXCEPT ![t] = label]
  /\ arg' = [arg EXCEPT ![t] = [op |-> op, val |-> val]]

Return(t) == pc' = [pc EXCEPT ![t] = "idle"]

\* Install is called: r.mu.Lock() is requested.
BeginInstall(t) ==
  /\ \E bin \in ConcBinaries : Begin(t, "i_mu", "install", bin)
  /\ mu' = Request(mu, t)
  /\ UNCHANGED <<regVars, addrHooks, idx, detectorsMu, matchedAt, installed,
                 activatedOn, nonConcVars>>

\* r.mu is acquired.  With the same emulator: r.emu = emu, r.mu.Unlock(), and
\* checkDetectors asks for detectorsMu.  With another emulator Install asks for
\* detectorsMu while it holds r.mu.
InstallLockMu(t) ==
  /\ pc[t] = "i_mu"
  /\ CanLock(mu)
  /\ IF regEmu # EmuOf[t]
       THEN /\ mu' = Lock(mu, t)
            /\ pc' = [pc EXCEPT ![t] = "i_reset"]
       ELSE /\ mu' = Unlock(Lock(mu, t))
            /\ pc' = [pc EXCEPT ![t] = "cd_lock"]
  /\ detectorsMu' = Request(detectorsMu, t)
  /\ UNCHANGED <<regVars, addrHooks, arg, idx, callsMade, matchedAt, installed,
                 activatedOn, nonConcVars>>

\* detectorsMu is acquired under r.mu: r.activated is replaced, detectorsMu is
\* released, r.emu = emu, r.mu.Unlock(), and checkDetectors asks for detectorsMu.
InstallReset(t) ==
  /\ pc[t] = "i_reset"
  /\ CanLock(detectorsMu)
  /\ activated' = {}
  /\ regEmu' = EmuOf[t]
  /\ mu' = Unlock(mu)
  /\ pc' = [pc EXCEPT ![t] = "cd_lock"]
  /\ UNCHANGED <<stubs, detectors, addrHooks, arg, idx, detectorsMu, callsMade,
                 matchedAt, installed, activatedOn, nonConcVars>>

ImportsOfCall(t) == ImportsOf(arg[t].val)
SymbolsOfCall(t) == MergeSymbols(ImportsOfCall(t), <<SymbolsOf(arg[t].val)>>)

\* checkDetectors acquires detectorsMu.
CheckDetectorsLock(t) ==
  /\ pc[t] = "cd_lock"
  /\ CanLock(detectorsMu)
  /\ detectorsMu' = Lock(detectorsMu, t)
  /\ idx' = [idx EXCEPT ![t] = 1]
  /\ matchedAt' = [matchedAt EXCEPT ![t] =
                     {d \in Registered : DetectorMatches(d, SymbolsOfCall(t))}]
  /\ pc' = [pc EXCEPT ![t] = "cd_loop"]
  /\ UNCHANGED <<regVars, addrHooks, arg, mu, callsMade, installed, activatedOn,
                 nonConcVars>>

\* One iteration of the loop of checkDetectors; an Activate that ends with
\* DefaultRegistry.Log goes on to ask for r.mu.RLock().
CheckDetectorsStep(t) ==
  /\ pc[t] = "cd_loop"
  /\ idx[t] <= Len(detectors)
  /\ LET d == detectors[idx[t]]
         e == EmuOf[t]
         st == checkDetector([activated |-> activated, hooks |-> addrHooks[e],
                              ran |-> <<>>],
                             d, ImportsOfCall(t), SymbolsOfCall(t))
         logs == st.ran # <<>> /\ ActivateLogs(d, ImportsOfCall(t), SymbolsOfCall(t))
     IN /\ activated' = st.activated
        /\ addrHooks' = [addrHooks EXCEPT ![e] = st.hooks]
        /\ activatedOn' = [activatedOn EXCEPT ![e] = @ \cup RanSet(st)]
        /\ IF logs
             THEN pc' = [pc EXCEPT ![t] = "cd_log"] /\ idx' = idx
             ELSE pc' = pc /\ idx' = [idx EXCEPT ![t] = @ + 1]
  /\ UNCHANGED <<stubs, detectors, regEmu, arg, mu, detectorsMu, callsMade,
                 matchedAt, installed, nonConcVars>>

\* Log inside Activate: r.mu.RLock(), the reads of OnCall and emu, r.mu.RUnlock().
ActivateLog(t) ==
  /\ pc[t] = "cd_log"
  /\ CanRLock(mu)
  /\ idx' = [idx EXCEPT ![t] = @ + 1]
  /\ pc' = [pc EXCEPT ![t] = "cd_loop"]
  /\ UNCHANGED <<regVars, addrHooks, arg, mu, detectorsMu, callsMade, matchedAt,
                 installed, activatedOn, nonConcVars>>

\* The loop is over: detectorsMu is released and Install asks for r.mu.RLock().
CheckDetectorsUnlock(t) ==
  /\ pc[t] = "cd_loop"
  /\ idx[t] > Len(detectors)
  /\ detectorsMu' = Unlock(detectorsMu)
  /\ pc' = [pc EXCEPT ![t] = "st_rlock"]
  /\ UNCHANGED <<regVars, addrHooks, arg, idx, mu, callsMade, matchedAt, installed,
                 activatedOn, nonConcVars>>

InstallRLock(t) ==
  /\ pc[t] = "st_rlock"
  /\ CanRLock(mu)
  /\ mu' = RLock(mu, t)
  /\ pc' = [pc EXCEPT ![t] = "st_install"]
  /\ UNCHANGED <<regVars, addrHooks, arg, idx, detectorsMu, callsMade, matchedAt,
                 installed, activatedOn, nonConcVars>>

\* The StubDef passes and the fallbacks under r.mu.RLock(), then the deferred
\* RUnlock and the return.
InstallStubs(t) ==
  /\ pc[t] = "st_install"
  /\ LET e == EmuOf[t]
         st0 == [hooks |-> addrHooks[e], seen |-> {}, stubbed |-> {}]
         st1 == installPass(st0, stubs, ImportsOfCall(t))
         st2 == installPasses(st1, stubs, <<SymbolsOf(arg[t].val)>>)
     IN addrHooks' = [addrHooks EXCEPT ![e] = installFallbacks(st2, ImportsOfCall(t))]
  /\ mu' = RUnlock(mu, t)
  /\ installed' = [installed EXCEPT ![t] = TRUE]
  /\ Return(t)
  /\ UNCHANGED <<regVars, arg, idx, detectorsMu, callsMade, matchedAt, activatedOn,
                 nonConcVars>>

\* Register is called: r.mu.Lock() is requested.
BeginRegister(t) ==
  /\ \E def \in StubDefPool : Begin(t, "r_lock", "register", def)
  /\ mu' = Request(mu, t)
  /\ UNCHANGED <<regVars, addrHooks, idx, detectorsMu, matchedAt, installed,
                 activatedOn, nonConcVars>>

RegisterLocked(t) ==
  /\ pc[t] = "r_lock"
  /\ CanLock(mu)
  /\ stubs' = RegisterResult(stubs, arg[t].val)
  /\ mu' = Unlock(Lock(mu, t))
  /\ Return(t)
  /\ UNCHANGED <<detectors, activated, regEmu, addrHooks, arg, idx, detectorsMu,
                 callsMade, matchedAt, installed, activatedOn, nonConcVars>>

\* RegisterDetector is called, for a detector no caller has registered or is
\* registering: r.detectorsMu.Lock() is requested.
BeginRegisterDetector(t) ==
  /\ \E d \in DetectorPool \ Registered :
       /\ \A u \in Threads : pc[u] = "rd_lock" => arg[u].val # d
       /\ Begin(t, "rd_lock", "detector", d)
  /\ detectorsMu' = Request(detectorsMu, t)
  /\ UNCHANGED <<regVars, addrHooks, idx, mu, matchedAt, installed, activatedOn,
                 nonConcVars>>

RegisterDetectorLocked(t) ==
  /\ pc[t] = "rd_lock"
  /\ CanLock(detectorsMu)
  /\ detectors' = Append(detectors, arg[t].val)
  /\ detectorsMu' = Unlock(Lock(detectorsMu, t))
  /\ Return(t)
  /\ UNCHANGED <<stubs, activated, regEmu, addrHooks, arg, idx, mu, callsMade,
                 matchedAt, installed, activatedOn, nonConcVars>>

\* Log is called by a stub or a capture hook.
BeginLog(t) ==
  /\ Begin(t, "log", "log", "")
  /\ UNCHANGED <<regVars, addrHooks, idx, mu, detectorsMu, matchedAt, installed,
                 activatedOn, nonConcVars>>

LogRead(t) ==
  /\ pc[t] = "log"
  /\ CanRLock(mu)
  /\ Return(t)
  /\ UNCHANGED <<regVars, addrHooks, arg, idx, mu, detectorsMu, callsMade,
                 matchedAt, installed, activatedOn, nonConcVars>>

NextConc ==
  \E t \in Threads :
    \/ BeginInstall(t)
    \/ InstallLockMu(t)
    \/ InstallReset(t)
    \/ CheckDetectorsLock(t)
    \/ CheckDetectorsStep(t)
    \/ ActivateLog(t)
    \/ CheckDetectorsUnlock(t)
    \/ InstallRLock(t)
    \/ InstallStubs(t)
    \/ BeginRegister(t)
    \/ RegisterLocked(t)
    \/ BeginRegisterDetector(t)
    \/ RegisterDetectorLocked(t)
    \/ BeginLog(t)
    \/ LogRead(t)

SpecConc == Init /\ [][NextConc]_vars

\* A thread that waits for a mutex it cannot get.
Blocked(t) ==
  \/ pc[t] \in {"i_mu", "r_lock"} /\ ~CanLock(mu)
  \/ pc[t] \in {"i_reset", "cd_lock", "rd_lock"} /\ ~CanLock(detectorsMu)
  \/ pc[t] \in {"cd_log", "st_rlock", "log"} /\ ~CanRLock(mu)

InCall(t) == pc[t] # "idle"

\* C5: the registry is safe for concurrent use: in every interleaving of Install,
\* Register, RegisterDetector and Log every call returns; no state is reached in
\* which calls are in progress and each of them waits for a mutex that another
\* waiting call holds.
C5_EveryCallReturns ==
  (\E t \in Threads : InCall(t)) => \E t \in Threads : InCall(t) /\ ~Blocked(t)

\* C6: when two threads have run Install concurrently, each with its own
\* emulator, and both have returned, every detector that matched a thread's
\* symbols has had its Activate run on that thread's emulator.
C6_ActivateRanForEachEmulator ==
  (\A t \in Threads : installed[t] /\ ~InCall(t)) =>
    \A t \in Threads : matchedAt[t] \subseteq activatedOn[EmuOf[t]]

(***************************************************************************)
(* Capture: hooks fire with whatever the guest has in its registers, and   *)
(* callers of the package capture directly.                                *)
(***************************************************************************)
MaxKeys == 2

SignPool == {Zero64, Ptr.cstrGood, Ptr.cstrBad}
LenPool == {Zero64, FromInt(4)}

\* The capture hooks the detectors attach, over every name they match.
CaptureHooks ==
  {h \in {cocos2dxHookOf[n] : n \in NamePool} \cup {unityHookOf[n] : n \in NamePool} :
     h.kind \in CaptureKinds}

\* Arguments of direct calls.
DirectValues == {<<>>, <<75, 49>>, <<7>>, <<75, 200>>}
DirectSources == {Sym.jsb, Sym.aes, Sym.ext \o SignatureSuffix, <<"x">>}

GetCapturedKeys == capturedKeys

captureKeys(keys) ==
  /\ capturedKeys' = capturedKeys \o keys
  /\ UNCHANGED nonCapVars

ClearCapturedKeys ==
  /\ capturedKeys' = <<>>
  /\ UNCHANGED nonCapVars

XXTeaKeyHookFires ==
  /\ Len(capturedKeys) < MaxKeys
  /\ \E h \in {c \in CaptureHooks : c.kind = "xxtea"} :
       \E x0 \in RegPool, x1 \in RegPool, x2 \in RegPool, x3 \in SignPool, x4 \in LenPool :
         \E keys \in {makeXXTeaKeyHook(h.fn, x0, x1, x2, x3, x4, AddrOf[h.fn])} :
           captureKeys(keys)

StdStringSetterHookFires ==
  /\ Len(capturedKeys) < MaxKeys
  /\ \E h \in {c \in CaptureHooks : c.kind = "stdstring"} :
       \E x1 \in StringRefPool, x2 \in StringRefPool :
         \E keys \in {makeStdStringSetterHook(h.fn, x1, x2, AddrOf[h.fn])} :
           captureKeys(keys)

GenericKeyHookFires ==
  /\ Len(capturedKeys) < MaxKeys
  /\ \E h \in {c \in CaptureHooks : c.kind = "generic"} :
       \E x0 \in RegPool, x1 \in RegPool, x2 \in RegPool :
         \E keys \in {makeGenericKeyHook(h.fn, h.arg, x0, x1, x2, AddrOf[h.fn])} :
           captureKeys(keys)

VtableStubHookFires ==
  /\ Len(capturedKeys) < MaxKeys
  /\ \E i \in SlotSample, x1 \in RegPool, x2 \in RegPool, x3 \in SignPool, x4 \in LenPool :
       \E keys \in {vtableStubHook(i, x1, x2, x3, x4, AddI(vtableStubs, 4 * i))} :
         captureKeys(keys)

CaptureKeyDirectCall ==
  /\ Len(capturedKeys) < MaxKeys
  /\ \E value \in DirectValues, source \in DirectSources, address \in {Zero64, TextBase} :
       captureKeys(<<CaptureKeyDirect(value, source, address)>>)

NextCapture ==
  \/ XXTeaKeyHookFires
  \/ StdStringSetterHookFires
  \/ GenericKeyHookFires
  \/ VtableStubHookFires
  \/ CaptureKeyDirectCall
  \/ ClearCapturedKeys

SpecCapture == Init /\ [][NextCapture]_vars

\* C1: every captured key returned by GetCapturedKeys has a non-empty value
\* whose every byte is in 0x20..0x7E, whatever hooks fired and whatever was
\* captured directly.
C1_CapturedValuesPrintable ==
  \A k \in 1..Len(GetCapturedKeys) :
    LET v == GetCapturedKeys[k].value
    IN Len(v) > 0 /\ \A i \in 1..Len(v) : v[i] >= 32 /\ v[i] <= 126

(***************************************************************************)
(* A run of the driver: package init, runTrace up to emu.RunFrom, the      *)
(* engine calling back for every instruction, and runTrace's report.       *)
(***************************************************************************)
maxInsn == 2
MaxCount == 9
MaxAfterStop == 1

RunEmu == "e1"

\* The ELF entry point: none of the sample symbols is an entry candidate.
Entry == AddI(TextBase, 4096)

Ins(op, reg, to) == [op |-> op, reg |-> reg, to |-> to]

RetOnly == <<Ins("ret", 0, Zero64)>>

\* Guest code at Entry, one instruction every 4 bytes.
Programs ==
  { RetOnly,
    <<Ins("b", 0, AddrOf[Sym.abort])>>,
    <<Ins("b", 0, Entry)>>,
    <<Ins("mov", 0, FromInt(4)), Ins("b", 0, AddrOf[Sym.malloc])>>,
    <<Ins("mov", 1, Ptr.cstrGood), Ins("b", 0, AddrOf[Sym.lua])>>,
    <<Ins("mov", 1, Ptr.cstrGood), Ins("mov", 3, Ptr.cstrGood), Ins("mov", 4, FromInt(4)),
      Ins("b", 0, AddrOf[Sym.lua])>>,
    <<Ins("mov", 1, Ptr.cstrGood), Ins("bl", 0, AddrOf[Sym.lua]), Ins("ldr", 0, Ptr.wild)>>,
    <<Ins("b", 0, Ptr.wild)>>,
    <<Ins("udf", 0, Zero64)>>,
    <<Ins("mov", 1, Ptr.cstrGood), Ins("mov", 3, Ptr.cstrGood), Ins("mov", 4, FromInt(4)),
      Ins("bl", 0, AddrOf[Sym.lua]), Ins("bl", 0, AddrOf[Sym.lua])>>,
    <<Ins("mov", 1, Ptr.ssoGood), Ins("mov", 2, Ptr.heapRef), Ins("bl", 0, AddrOf[Sym.dec]),
      Ins("mov", 1, Ptr.cstrGood), Ins("bl", 0, AddrOf[Sym.lua])>> }

Guests ==
  {[bin |-> b, code |-> c, elf |-> TRUE] : b \in Binaries, c \in Programs} \cup {NoGuest}

\* The word at address a of the loaded image: the program's instruction, and
\* the zero word (an undefined instruction) anywhere else.
InstrAt(g, a) ==
  LET at == {i \in 1..Len(g.code) : AddI(Entry, 4 * (i - 1)) = a}
  IN IF at = {} THEN Ins("udf", 0, Zero64) ELSE g.code[CHOOSE i \in at : TRUE]

\* One instruction at a: a fault, or the registers after it.
execute(ins, a, lrv, regs) ==
  LET next(pcv, l, r) == [fault |-> "nil", pc |-> pcv, lr |-> l, x |-> r]
      faulted(f) == [fault |-> f, pc |-> a, lr |-> lrv, x |-> regs]
  IN CASE ins.op = "ret" -> next(lrv, lrv, regs)
       [] ins.op = "b" -> next(ins.to, lrv, regs)
       [] ins.op = "bl" -> next(ins.to, AddI(a, 4), regs)
       [] ins.op = "mov" -> next(AddI(a, 4), lrv, [regs EXCEPT ![ins.reg] = ins.to])
       [] ins.op = "ldr" ->
            IF Mapped(ins.to, 8) THEN next(AddI(a, 4), lrv, regs)
            ELSE faulted("read-unmapped")
       [] OTHER -> faulted("illegal-instruction")

\* The callback of setupHooks without the test of e.stopped.
hookCallback_NoStoppedCheck(isStopped, hooked, hookStops) ==
  IF hooked /\ hookStops
    THEN [ranAddr |-> TRUE, ranCode |-> FALSE, stop |-> TRUE, engineStop |-> TRUE]
    ELSE [ranAddr |-> hooked, ranCode |-> TRUE, stop |-> FALSE, engineStop |-> FALSE]

\* The callback of setupHooks: which hooks it invokes, whether it calls
\* e.Stop(), and whether it asks the engine to stop.
hookCallback(isStopped, hooked, hookStops) ==
  IF isStopped
    THEN [ranAddr |-> FALSE, ranCode |-> FALSE, stop |-> FALSE, engineStop |-> TRUE]
  ELSE IF hooked /\ hookStops
    THEN [ranAddr |-> TRUE, ranCode |-> FALSE, stop |-> TRUE, engineStop |-> TRUE]
  ELSE [ranAddr |-> hooked, ranCode |-> TRUE, stop |-> FALSE, engineStop |-> FALSE]

\* makeMockHook's X0; X8 is never written by the sample programs.
mockX0(behavior, x0) ==
  CASE behavior \in {"rtti", "int", "string"} -> Zero64
    [] behavior = "value_ref" -> AddI(mockObj, 256)
    [] behavior = "bool" -> FromInt(1)
    [] behavior = "void" -> x0
    [] OTHER -> mockObj

Effect(stop, pcv, x0, keys) == [stop |-> stop, pc |-> pcv, x0 |-> x0, keys |-> keys]

slotOf(a) == CHOOSE i \in SlotSample : AddI(vtableStubs, 4 * i) = a

\* What the address hook h does when it runs at a: its result, the PC
\* (ReturnFromStub sets it to LR), X0, and the keys it captures.
hookEffect(h, regs, lrv, a) ==
  CASE h.kind = "sentinel" -> Effect(TRUE, a, regs[0], <<>>)
    [] h.kind = "stub" -> IF h.arg = "stop" THEN Effect(TRUE, a, regs[0], <<>>)
                          ELSE Effect(FALSE, lrv, HeapBase, <<>>)
    [] h.kind = "fallback" -> Effect(FALSE, lrv, Zero64, <<>>)
    [] h.kind \in CaptureKinds -> Effect(FALSE, lrv, regs[0], captureHook(h, regs, a))
    [] h.kind = "mock" -> Effect(FALSE, lrv, mockX0(h.arg, regs[0]), <<>>)
    [] h.kind = "vtable-driver" ->
         Effect(FALSE, a, mockObj, vtableStubHook(slotOf(a), regs[1], regs[2], regs[3], regs[4], a))
    [] h.kind = "callback" -> Effect(FALSE, a, Zero64, <<>>)
    [] OTHER -> Effect(FALSE, a, mockObj, <<>>)

NoHook == Hook("none", <<>>, "")
hookAtOrNone(hooks, a) == IF a \in DOMAIN hooks THEN hooks[a] ELSE NoHook

\* installVtableStubHooks: the driver's hook replaces the emulator's at every
\* vtable stub.
installVtableStubHooks(hooks) ==
  [a \in DOMAIN hooks |->
     IF \E i \in SlotSample : AddI(vtableStubs, 4 * i) = a
       THEN Hook("vtable-driver", <<>>, "") ELSE hooks[a]]

\* runTrace's hooks without the one at the sentinel.
driverHooks_NoSentinel(hooks) == installVtableStubHooks(hooks)

\* The hooks runTrace adds after stubs.Install: the vtable stubs' and the
\* sentinel's, which returns stop = true.
driverHooks(hooks) ==
  HookAddress(installVtableStubHooks(hooks), Sentinel, Hook("sentinel", <<>>, "stop"))

\* runTrace's result when it returns the error of emu.RunFrom.
runTraceResult_ReturnsRunErr(err) == IF err = "nil" THEN "nil" ELSE "error"

\* runTrace's result after the run: nil, whatever emu.RunFrom returned.
runTraceResult(err) == "nil"

RECURSIVE registerAll(_, _)
registerAll(defs, pool) ==
  IF pool = {} THEN defs
  ELSE LET def == CHOOSE d \in pool : TRUE
       IN registerAll(RegisterResult(defs, def), pool \ {def})

\* The order the packages' init() register their detectors in.
InitDetectors == <<"internal-mock", "cocos2dx", "unity-il2cpp">>

\* Package initialisation, before main.
ProgramInit ==
  /\ dpc = "start"
  /\ dpc' = "main"
  /\ stubs' = registerAll(stubs, StubDefPool)
  /\ detectors' = InitDetectors
  /\ UNCHANGED <<activated, regEmu, addrHooks, capturedKeys, nonRunVars>>
  /\ UNCHANGED <<guest, fail, count, runErr, result, reported, engineVars, ghostVars>>

\* runTrace up to emu.RunFrom(entry).
RunTraceBegin(hasArg, g, newFails) ==
  /\ dpc = "main"
  /\ guest' = IF hasArg THEN g ELSE NoGuest
  /\ fail' = [new |-> hasArg /\ newFails, load |-> hasArg /\ ~newFails /\ ~g.elf]
  /\ IF ~hasArg \/ newFails \/ ~g.elf
       THEN /\ result' = IF hasArg THEN "error" ELSE "help"
            /\ dpc' = "done"
            /\ UNCHANGED <<activated, regEmu, addrHooks, capturedKeys>>
            /\ UNCHANGED <<gpc, lr, x>>
       ELSE /\ \E r \in {InstallResult(stubs, detectors, activated, regEmu, RunEmu,
                                       addrHooks[RunEmu], ImportsOf(g.bin),
                                       <<SymbolsOf(g.bin)>>)} :
                 /\ activated' = r.activated
                 /\ addrHooks' = [addrHooks EXCEPT ![RunEmu] = driverHooks(r.hooks)]
            /\ regEmu' = RunEmu
            /\ capturedKeys' = <<>>
            /\ x' = [r \in 0..4 |-> IF r <= 1 THEN mockObj ELSE Zero64]
            /\ lr' = Sentinel
            /\ gpc' = Entry
            /\ result' = result
            /\ dpc' = "hook"
  /\ count' = 0
  /\ stopped' = FALSE
  /\ UNCHANGED <<stubs, detectors, runErr, reported, ghostVars, nonRunVars>>

\* The engine is about to execute the instruction at gpc, or, once Stop was
\* called, the next one of the block it is in: the callback of setupHooks runs.
CodeHook ==
  /\ dpc \in {"hook", "stopping"}
  /\ dpc = "stopping" => extra < MaxAfterStop
  /\ count < MaxCount
  /\ \E a \in {IF dpc = "hook" THEN gpc ELSE AddI(gpc, 4)} :
       /\ Mapped(a, 4)
       /\ \E h \in {hookAtOrNone(addrHooks[RunEmu], a)} :
            \E eff \in {hookEffect(h, x, lr, a)} :
              \E cb \in {hookCallback(stopped, h.kind # "none", eff.stop)} :
                /\ stopped' = (stopped \/ cb.stop)
                /\ capturedKeys' = IF cb.ranAddr THEN capturedKeys \o eff.keys
                                   ELSE capturedKeys
                /\ x' = IF cb.ranAddr THEN [x EXCEPT ![0] = eff.x0] ELSE x
                /\ gpc' = IF dpc = "stopping" THEN gpc
                          ELSE IF cb.ranAddr /\ ~cb.stop THEN eff.pc ELSE a
                /\ count' = IF cb.ranCode THEN count + 1 ELSE count
                /\ dpc' = IF cb.engineStop \/ dpc = "stopping" THEN "stopping"
                          ELSE IF cb.ranAddr /\ eff.pc # a THEN "hook" ELSE "exec"
                /\ lastCb' = [addr |-> a, ranAddr |-> cb.ranAddr, ranCode |-> cb.ranCode,
                              stop |-> cb.stop]
                /\ stopAt' = IF cb.stop THEN a ELSE stopAt
                /\ afterStop' =
                     IF stopAt = NoAddr THEN afterStop
                     ELSE afterStop + (IF cb.ranAddr THEN 1 ELSE 0)
                                    + (IF cb.ranCode THEN 1 ELSE 0)
  /\ extra' = IF dpc = "stopping" THEN extra + 1 ELSE extra
  /\ UNCHANGED <<stubs, detectors, activated, regEmu, addrHooks, nonRunVars>>
  /\ UNCHANGED <<guest, fail, runErr, result, reported, lr>>

\* The engine executes the instruction at gpc.
Execute ==
  /\ dpc = "exec"
  /\ \E r \in {execute(InstrAt(guest, gpc), gpc, lr, x)} :
       /\ gpc' = r.pc
       /\ lr' = r.lr
       /\ x' = r.x
       /\ dpc' = IF r.fault = "nil" THEN "hook" ELSE "returned"
       /\ runErr' = IF r.fault = "nil" THEN runErr ELSE r.fault
  /\ UNCHANGED <<stubs, detectors, activated, regEmu, addrHooks, capturedKeys, nonRunVars>>
  /\ UNCHANGED <<guest, fail, count, result, reported, stopped, ghostVars>>

\* The engine cannot fetch at gpc: emu.RunFrom returns the fault.
FetchFault ==
  /\ dpc = "hook"
  /\ ~Mapped(gpc, 4)
  /\ dpc' = "returned"
  /\ runErr' = "fetch-unmapped"
  /\ UNCHANGED <<stubs, detectors, activated, regEmu, addrHooks, capturedKeys, nonRunVars>>
  /\ UNCHANGED <<guest, fail, count, result, reported, engineVars, ghostVars>>

\* The engine honours Stop: emu.RunFrom returns nil.
EngineStops ==
  /\ dpc = "stopping"
  /\ dpc' = "returned"
  /\ runErr' = "nil"
  /\ UNCHANGED <<stubs, detectors, activated, regEmu, addrHooks, capturedKeys, nonRunVars>>
  /\ UNCHANGED <<guest, fail, count, result, reported, engineVars, ghostVars>>

\* runTrace after emu.RunFrom: it reports GetCapturedKeys() and returns.
RunTraceFinish ==
  /\ dpc = "returned"
  /\ reported' = GetCapturedKeys
  /\ result' = runTraceResult(runErr)
  /\ dpc' = "done"
  /\ UNCHANGED <<stubs, detectors, activated, regEmu, addrHooks, capturedKeys, nonRunVars>>
  /\ UNCHANGED <<guest, fail, count, runErr, engineVars, ghostVars>>

NextRun ==
  \/ ProgramInit
  \/ \E hasArg \in BOOLEAN, g \in Guests, newFails \in BOOLEAN : RunTraceBegin(hasArg, g, newFails)
  \/ CodeHook
  \/ Execute
  \/ FetchFault
  \/ EngineStops
  \/ RunTraceFinish

SpecRun == Init /\ [][NextRun]_vars

\* C7: when an address hook returns stop = true the run halts and is not
\* resumed: no code hook runs for that instruction, and no address hook or code
\* hook is invoked afterwards in that run.
C7_StopHaltsRun ==
  /\ lastCb.stop => ~lastCb.ranCode
  /\ stopAt # NoAddr => dpc \in {"stopping", "returned", "done"} /\ afterStop = 0

\* The abort stub stopped a run, the engine called back once more after Stop,
\* and the run ended.
C7_Witness ==
  /\ stopAt = AddrOf[Sym.abort]
  /\ extra > 0
  /\ dpc = "done"

\* C8: once the driver's counter exceeds the cap, its callback has called
\* emu.Stop(), so the run is stopping.
C8_CapStopsRun == count > maxInsn => stopped

\* C9: a run with LR at the sentinel whose entry point is a RET stops at the
\* sentinel's hook, with no key captured and no fault reported: RunFrom returns
\* nil and runTrace returns nil with an empty report.
C9_RetStopsAtSentinel ==
  (guest.elf /\ guest.code = RetOnly /\ dpc \notin {"start", "main"} /\ ~fail.new) =>
    /\ capturedKeys = <<>>
    /\ gpc \in {Entry, Sentinel}
    /\ runErr \in {"none", "nil"}
    /\ dpc \in {"stopping", "returned", "done"} => stopAt = Sentinel /\ count = 1
    /\ dpc \in {"returned", "done"} => runErr = "nil"
    /\ dpc = "done" => result = "nil" /\ reported = <<>>

C9_Witness ==
  /\ guest.elf /\ guest.code = RetOnly
  /\ dpc = "done"
  /\ result = "nil"
  /\ stopAt = Sentinel
  /\ lastCb.addr = Sentinel

\* C10: runTrace returns an error exactly when emulator.New or LoadELF failed;
\* once the ELF is loaded a run that ends, by a stop hook, the sentinel or a
\* guest fault, returns nil and reports the keys captured so far.
C10_BinaryOutcome ==
  /\ result = "error" <=> (dpc = "done" /\ (fail.new \/ fail.load))
  /\ (dpc = "done" /\ guest.elf /\ ~fail.new) =>
       result = "nil" /\ reported = capturedKeys
  /\ (dpc \notin {"start", "main", "done"}) => guest.elf /\ result = "none"

\* A guest fault ended a run after a key was captured: runTrace returned nil
\* and reported the key.
C10_Witness ==
  /\ dpc = "done"
  /\ runErr = "read-unmapped"
  /\ result = "nil"
  /\ Len(reported) > 0

\* C12: a callback that runs an XXTEA-key hook or a std::string-setter hook
\* appends to the captured keys at most two entries, the key (xxtea,
\* critical) and after it the signature (signature, low), never a signature
\* alone; it does not stop the emulator and leaves PC at LR, so the run goes on
\* and a later setter call appends after the earlier ones.
C12_SetterHookAppends ==
  [][(/\ dpc = "hook" /\ ~stopped /\ Mapped(gpc, 4)
      /\ hookAtOrNone(addrHooks[RunEmu], gpc).kind \in {"xxtea", "stdstring"})
     => /\ ~stopped' /\ gpc' = lr /\ dpc' = "hook"
        /\ Len(capturedKeys') \in Len(capturedKeys)..(Len(capturedKeys) + 2)
        /\ SubSeq(capturedKeys', 1, Len(capturedKeys)) = capturedKeys
        /\ \A k \in (Len(capturedKeys) + 1)..Len(capturedKeys') :
             IF k = Len(capturedKeys) + 1
               THEN capturedKeys'[k].keyType = "xxtea" /\ capturedKeys'[k].riskLevel = "critical"
               ELSE capturedKeys'[k].keyType = "signature" /\ capturedKeys'[k].riskLevel = "low"]_vars

\* Two setter calls in one run: the std::string setter captured a key and a
\* signature, the XXTEA setter after it a key with no signature.
C12_Witness ==
  /\ Len(capturedKeys) = 3
  /\ [k \in 1..3 |-> capturedKeys[k].keyType] = <<"xxtea", "signature", "xxtea">>
  /\ capturedKeys[1].source = Sym.dec
  /\ capturedKeys[3].source = Sym.lua
  /\ lastCb.addr = AddrOf[Sym.lua]

(***************************************************************************)
(* The emulator's heap and its vtable stubs: Malloc, the hook emulator.New *)
(* attaches at every vtable stub, and the one the driver puts there.       *)
(***************************************************************************)
MaxMallocs == 3

\* (size + 15) & ^uint64(15)
alignUp(size) ==
  CHOOSE r \in {<<s[1], s[2], s[3], s[4] - (s[4] % 16)>> : s \in {AddI(size, 15)}} : TRUE

\* Emulator.Malloc: the address returned and the heap pointer after it, or a
\* panic when the heap pointer is at or past the end of the heap.
Malloc(hp, size) ==
  CHOOSE r \in
    { [addr |-> hp, heapPtr |-> np, panic |-> ~Lt(np, Add64(HeapBase, HeapSize))]
      : np \in {Add64(hp, alignUp(size))} } : TRUE

\* Emulator.MemWrite: all of the bytes, or none when the range is not mapped.
\* (a - at is taken in the low 32 bits: no mapping crosses a multiple of 2^32.)
offsetFrom(at, a) ==
  IF a[1] = at[1] /\ a[2] = at[2] /\ a[3] - at[3] \in {0, 1}
    THEN (a[3] - at[3]) * WordMod + a[4] - at[4]
    ELSE -1

MemWrite(mem, at, bytes) ==
  IF Mapped(at, Len(bytes))
    THEN [a \in DOMAIN mem \cup {AddI(at, i - 1) : i \in 1..Len(bytes)} |->
            IF offsetFrom(at, a) \in 0..(Len(bytes) - 1)
              THEN bytes[offsetFrom(at, a) + 1]
              ELSE mem[a]]
    ELSE mem

inStack(x8) == Le(StackBase, x8) /\ Lt(x8, Add64(StackBase, StackSize))

HookResult(x0, hp, mem, panic, keys) ==
  [stop |-> FALSE, x0 |-> x0, heapPtr |-> hp, mem |-> mem, panic |-> panic, keys |-> keys]

\* The empty libstdc++ string makeVtableStubHook builds in the block at rep
\* and stores through x8: _Rep {0, 15, 0}, 16 zero bytes, *x8 = rep + 24.
emptyStringAt(mem, rep, x8) ==
  MemWrite(MemWrite(MemWrite(mem, rep, LE64(Zero64) \o LE64(FromInt(15)) \o LE64(Zero64)),
                    AddI(rep, 24), [i \in 1..16 |-> 0]),
           x8, LE64(AddI(rep, 24)))

\* makeVtableStubHook, the hook emulator.New attaches.
makeVtableStubHook(hp, mem, x8) ==
  IF inStack(x8)
    THEN CHOOSE r \in
           { IF m.panic THEN HookResult(Zero64, m.heapPtr, mem, TRUE, <<>>)
             ELSE IF m.addr = Zero64 THEN HookResult(mockObj, m.heapPtr, mem, FALSE, <<>>)
             ELSE HookResult(x8, m.heapPtr, emptyStringAt(mem, m.addr, x8), FALSE, <<>>)
             : m \in {Malloc(hp, FromInt(40))} } : TRUE
    ELSE HookResult(mockObj, hp, mem, FALSE, <<>>)

\* The hook at a vtable stub: the emulator's, or the one
\* installVtableStubHooks put in its place, which captures keys and sets
\* X0 = mockObj.
vtableHookAt(h, a, hp, mem, x1, x2, x8) ==
  IF h.kind = "vtable-driver"
    THEN HookResult(mockObj, hp, mem, FALSE, vtableStubHook(slotOf(a), x1, x2, Zero64, Zero64, a))
    ELSE makeVtableStubHook(hp, mem, x8)

SizePool ==
  {Zero64, FromInt(1), FromInt(16), FromInt(40), Word(4095, 65520),
   <<65535, 65535, 65535, 65520>>, <<65535, 65535, 65535, 65535>>}

X8Pool ==
  {Zero64, StackBase, Word(32783, 65528), Add64(StackBase, StackSize), mockObj}

\* A stub calls emu.Malloc(size).
MallocCall(size) ==
  /\ ~panicked
  /\ Len(blocks) < MaxMallocs
  /\ \E m \in {Malloc(heapPtr, size)} :
       /\ heapPtr' = m.heapPtr
       /\ panicked' = m.panic
       /\ blocks' = IF m.panic THEN blocks ELSE Append(blocks, [addr |-> m.addr, size |-> size])
  /\ UNCHANGED <<gmem, vcall, seqVars, capVars, nonHeapVars>>

\* runTrace's installVtableStubHooks(emu, info, &count).
InstallVtableStubHooksCall ==
  /\ ~panicked
  /\ addrHooks' = [addrHooks EXCEPT ![RunEmu] = installVtableStubHooks(@)]
  /\ UNCHANGED <<regVars, histVars, heapVars, capVars, nonHeapVars>>

\* The guest calls vtable_stub[i]: the hook at that address runs.
VtableStubCall(i, x1, x2, x8) ==
  /\ ~panicked
  /\ Len(blocks) < MaxMallocs
  /\ Len(capturedKeys) < MaxKeys
  /\ \E a \in {AddI(vtableStubs, 4 * i)} :
       \E h \in {hookAtOrNone(addrHooks[RunEmu], a)} :
         \E r \in {vtableHookAt(h, a, heapPtr, gmem, x1, x2, x8)} :
           /\ heapPtr' = r.heapPtr
           /\ panicked' = r.panic
           /\ gmem' = r.mem
           /\ blocks' = IF r.heapPtr = heapPtr \/ r.panic THEN blocks
                        ELSE Append(blocks, [addr |-> heapPtr, size |-> FromInt(40)])
           /\ capturedKeys' = capturedKeys \o r.keys
           /\ vcall' = [kind |-> h.kind, x8 |-> x8, x0 |-> r.x0, stop |-> r.stop, hp |-> heapPtr]
  /\ UNCHANGED <<seqVars, nonHeapVars>>

NextEmu ==
  \/ \E size \in SizePool : MallocCall(size)
  \/ InstallVtableStubHooksCall
  \/ \E i \in SlotSample, x1 \in {Zero64, Ptr.cstrGood}, x2 \in LenPool, x8 \in X8Pool :
       VtableStubCall(i, x1, x2, x8)

SpecEmu == Init /\ [][NextEmu]_vars

\* C11: at every vtable stub, whichever hook is there, a call with X8 inside
\* the stack region returns X0 = X8 and leaves at X8 a pointer to the data of
\* an empty string (length 0, a NUL) in the block it allocated, at the heap
\* pointer of before the call; a call with X8 elsewhere returns
\* X0 = mockObj; the hook never asks to stop.  (Calls made with the heap
\* pointer already below the heap are left to C15.)
C11_VtableStubReturnsByValue ==
  (vcall.kind # "none" /\ ~panicked /\ Le(HeapBase, vcall.hp)) =>
    /\ ~vcall.stop
    /\ IF inStack(vcall.x8)
         THEN /\ vcall.x0 = vcall.x8
              /\ \A k \in 0..7 : AddI(vcall.x8, k) \in DOMAIN gmem
              /\ [k \in 1..8 |-> gmem[AddI(vcall.x8, k - 1)]] = LE64(AddI(vcall.hp, 24))
              /\ [k \in 1..8 |-> gmem[AddI(vcall.hp, k - 1)]] = LE64(Zero64)
              /\ gmem[AddI(vcall.hp, 24)] = 0
         ELSE vcall.x0 = mockObj

\* C14: every address Malloc returned is a multiple of 16, and each is at
\* least the one before it plus that block's size rounded up to 16, in the
\* integers (no wrap-around of the sum or of the rounding).
C14_BlocksAlignedDisjoint ==
  \A k \in 1..Len(blocks) :
    /\ blocks[k].addr[4] % 16 = 0
    /\ k > 1 =>
         LET p == blocks[k - 1]
             r == alignUp(p.size)
             e == Add64(p.addr, r)
         IN Le(p.size, r) /\ Le(p.addr, e) /\ Le(e, blocks[k].addr)

\* C15: a Malloc that returned left the heap pointer inside the heap and not
\* below any block it returned, and every returned block [addr, addr + size)
\* lies inside [HeapBase, HeapBase + HeapSize).
C15_MallocStaysInHeap ==
  /\ ~panicked =>
       Le(HeapBase, heapPtr) /\ Lt(heapPtr, Add64(HeapBase, HeapSize))
  /\ \A k \in 1..Len(blocks) :
       LET b == blocks[k]
           e == Add64(b.addr, b.size)
       IN /\ Le(HeapBase, b.addr) /\ Le(b.addr, e) /\ Le(e, Add64(HeapBase, HeapSize))
          /\ ~panicked => Le(b.addr, heapPtr)

(***************************************************************************)
(* Two threads on the captured-keys list: captureKey, GetCapturedKeys and  *)
(* ClearCapturedKeys under capturedKeysMu, and callers writing into the    *)
(* slices GetCapturedKeys gave them.                                       *)
(***************************************************************************)
MaxKeyCalls == 5

KeyPool ==
  {CapturedKey(v, Sym.jsb, Zero64, "xxtea", "critical") : v \in {<<75>>, <<76>>}}
Scribble == CapturedKey(<<>>, <<>>, Zero64, "", "")

\* The elements of a slice.
elems(arrs, sl) == IF sl.arr = 0 THEN <<>> ELSE SubSeq(arrs[sl.arr], 1, sl.len)

\* append(capturedKeys, key): in place while the array has room, else into a
\* new array of twice the size.
appendKey(arrs, sl, key) ==
  IF sl.arr # 0 /\ sl.len < Len(arrs[sl.arr])
    THEN [arrs |-> [arrs EXCEPT ![sl.arr][sl.len + 1] = key],
          sl |-> [sl EXCEPT !.len = sl.len + 1]]
    ELSE [arrs |-> Append(arrs, elems(arrs, sl) \o <<key>> \o
                                  [i \in 1..(IF sl.len = 0 THEN 0 ELSE sl.len - 1) |-> Scribble]),
          sl |-> [arr |-> Len(arrs) + 1, len |-> sl.len + 1]]

\* GetCapturedKeys returning the slice capturedKeys itself.
copyKeys_Alias(arrs, sl) == [arrs |-> arrs, ret |-> sl]

\* GetCapturedKeys: make([]CapturedKey, len(capturedKeys)) and copy.
copyKeys(arrs, sl) ==
  [arrs |-> Append(arrs, elems(arrs, sl)), ret |-> [arr |-> Len(arrs) + 1, len |-> sl.len]]

\* capturedKeysMu.Lock() at the head of a call.
KeysLock(t, op) ==
  /\ kpc[t] = "idle"
  /\ kmu = "none"
  /\ kcalls < MaxKeyCalls
  /\ kmu' = t
  /\ kpc' = [kpc EXCEPT ![t] = op]
  /\ kcalls' = kcalls + 1
  /\ UNCHANGED <<karr, klist, kret, kappended, kgets, capVars, nonKeysVars>>

\* captureKey under the mutex: the append, then Unlock.
CaptureKeyLocked(t, key) ==
  /\ kpc[t] = "captureKey"
  /\ \E r \in {appendKey(karr, klist, key)} :
       /\ karr' = r.arrs
       /\ klist' = r.sl
       /\ capturedKeys' = elems(r.arrs, r.sl)
  /\ kappended' = Append(kappended, key)
  /\ kmu' = "none"
  /\ kpc' = [kpc EXCEPT ![t] = "idle"]
  /\ UNCHANGED <<kret, kcalls, kgets, nonKeysVars>>

\* GetCapturedKeys under the mutex: the copy, then Unlock and return.
GetCapturedKeysLocked(t) ==
  /\ kpc[t] = "GetCapturedKeys"
  /\ \E r \in {copyKeys(karr, klist)} :
       /\ karr' = r.arrs
       /\ kret' = [kret EXCEPT ![t] = r.ret]
       /\ kgets' = Append(kgets, elems(r.arrs, r.ret))
  /\ kmu' = "none"
  /\ kpc' = [kpc EXCEPT ![t] = "idle"]
  /\ UNCHANGED <<klist, kcalls, kappended, capVars, nonKeysVars>>

\* ClearCapturedKeys under the mutex: capturedKeys = nil, then Unlock.
ClearCapturedKeysLocked(t) ==
  /\ kpc[t] = "ClearCapturedKeys"
  /\ klist' = NilSlice
  /\ capturedKeys' = <<>>
  /\ kappended' = <<>>
  /\ kgets' = <<>>
  /\ kmu' = "none"
  /\ kpc' = [kpc EXCEPT ![t] = "idle"]
  /\ UNCHANGED <<karr, kret, kcalls, nonKeysVars>>

\* A caller writes into the slice it got from GetCapturedKeys; no mutex.
WriteReturned(t, i) ==
  /\ kpc[t] = "idle"
  /\ kret[t].arr # 0
  /\ i \in 1..kret[t].len
  /\ karr[kret[t].arr][i] # Scribble
  /\ karr' = [karr EXCEPT ![kret[t].arr][i] = Scribble]
  /\ capturedKeys' = elems(karr', klist)
  /\ UNCHANGED <<klist, kmu, kpc, kret, kcalls, kappended, kgets, nonKeysVars>>

NextKeys ==
  \/ \E t \in Threads, op \in {"captureKey", "GetCapturedKeys", "ClearCapturedKeys"} :
       KeysLock(t, op)
  \/ \E t \in Threads, key \in KeyPool : CaptureKeyLocked(t, key)
  \/ \E t \in Threads : GetCapturedKeysLocked(t)
  \/ \E t \in Threads : ClearCapturedKeysLocked(t)
  \/ \E t \in Threads, i \in 1..MaxKeyCalls : WriteReturned(t, i)

SpecKeys == Init /\ [][NextKeys]_vars

IsPrefix(p, q) == Len(p) <= Len(q) /\ SubSeq(q, 1, Len(p)) = p

\* C13: between two ClearCapturedKeys calls the list is exactly the keys
\* captured since the first, in capture order, whatever the callers write into
\* the slices they were given and however the threads interleave; so every
\* result of GetCapturedKeys is a prefix of every later result and of the list.
C13_AppendOnly ==
  /\ elems(karr, klist) = kappended
  /\ capturedKeys = kappended
  /\ \A j \in 1..Len(kgets) :
       /\ IsPrefix(kgets[j], kappended)
       /\ \A i \in 1..(j - 1) : IsPrefix(kgets[i], kgets[j])

\* A thread has overwritten a slice it was given, a later GetCapturedKeys
\* returned a longer list than an earlier one, and the other thread is inside
\* captureKey.
C13_Witness ==
  /\ \E t \in Threads : kret[t].len > 0 /\ karr[kret[t].arr][1] = Scribble
  /\ Len(kgets) >= 2
  /\ Len(kgets[1]) > 0
  /\ Len(kgets[Len(kgets)]) > Len(kgets[1])
  /\ \E t \in Threads : kpc[t] = "captureKey"

(***************************************************************************)
(* The guard stubs and the JNI stubs, called by the guest in any order.    *)
(***************************************************************************)
MaxJniCalls == 4

\* Env.mockObjBase after Env.Install: StubBase + 0x10000 + 0x6000.
JniMockObjBase == Word(61441, 24576)

NamePtrs == {Ptr.sA, Ptr.sAB, Ptr.sBC, Ptr.sC}
UtfPtrs == {Ptr.sA, Ptr.sAB, Ptr.lastPage}
IsCopyPool == {Zero64, AddI(StackBase, 256)}
LengthPool == {FromInt(8), <<65535, 65535, 65535, 57344>>}

\* What MemReadString returns for the strings the guest passes.
jniStringAt ==
  [p \in NamePtrs \cup UtfPtrs |-> [n \in {256, 4096} |-> MemReadString(p, n)]]

\* The C string at p: the bytes up to the first NUL.
cstringAt == [p \in UtfPtrs |-> UntilNul(p, 0, 16)]

\* The C string at a in the memory the stubs wrote.
RECURSIVE cstringIn(_, _)
cstringIn(mem, a) ==
  IF a \notin DOMAIN mem \/ mem[a] = 0 THEN <<>>
  ELSE <<mem[a]>> \o cstringIn(mem, AddI(a, 1))

\* A stub is called: the counter of calls, and what no stub below touches.
StubCalled ==
  /\ ~panicked
  /\ jcalls < MaxJniCalls
  /\ jcalls' = jcalls + 1
  /\ UNCHANGED <<vcall, nonStubVars>>

\* guardState[guardPtr] = true, as a set of the marked addresses.
guardRelease_All(gs, g) == gs \cup GuardPool

guardRelease(gs, g) == gs \cup {g}

\* stubCxaGuardAcquire: X0 = 0 when the guard is marked, else 1.
stubCxaGuardAcquire(g) ==
  /\ StubCalled
  /\ acquired' = [acquired EXCEPT ![g] =
       Append(@, [op |-> "acquire", ret |-> IF g \in guardState THEN 0 ELSE 1])]
  /\ UNCHANGED <<guardState, jniStrings, classRefs, methodRefs, nextRef, jclasses,
                 jmethods, jorig, jlast, heapPtr, panicked, gmem, blocks>>

\* stubCxaGuardRelease marks the guard; stubCxaGuardAbort only returns.
stubCxaGuardRelease(g, abort) ==
  /\ StubCalled
  /\ guardState' = IF abort THEN guardState ELSE guardRelease(guardState, g)
  /\ acquired' = [acquired EXCEPT ![g] =
       Append(@, [op |-> IF abort THEN "abort" ELSE "release", ret |-> 0])]
  /\ UNCHANGED <<jniStrings, classRefs, methodRefs, nextRef, jclasses,
                 jmethods, jorig, jlast, heapPtr, panicked, gmem, blocks>>

\* ClearGuardState: a new, empty map.
ClearGuardState ==
  /\ StubCalled
  /\ guardState' = {}
  /\ acquired' = [g \in GuardPool |-> Append(acquired[g], [op |-> "clear", ret |-> 0])]
  /\ UNCHANGED <<jniStrings, classRefs, methodRefs, nextRef, jclasses,
                 jmethods, jorig, jlast, heapPtr, panicked, gmem, blocks>>

\* classRefs / methodRefs: the reference under key, or a new one at base + next.
internRef(refs, key, base, next) == IF key \in DOMAIN refs THEN refs[key] ELSE Add64(base, next)

stubFindClass(namePtr) ==
  /\ StubCalled
  /\ \E className \in {jniStringAt[namePtr][256]} :
       \E ref \in {internRef(classRefs, className, JniMockObjBase, nextRef.class)} :
         /\ classRefs' = (className :> ref) @@ classRefs
         /\ nextRef' = IF className \in DOMAIN classRefs THEN nextRef
                       ELSE [nextRef EXCEPT !.class = AddI(@, 8)]
         /\ jclasses' = jclasses \cup {<<cstringIn(Memory, namePtr), ref>>}
         /\ jlast' = [NoJniCall EXCEPT !.fn = "FindClass", !.x0 = ref]
  /\ UNCHANGED <<guardState, acquired, jniStrings, methodRefs, jmethods, jorig,
                 heapPtr, panicked, gmem, blocks>>

StaticPrefix == <<115, 116, 97, 116, 105, 99, 58>>

\* stubGetMethodID and stubGetStaticMethodID: key "name" + "sig", with
\* "static:" in front and the IDs 0x10000 further up for the static one.
stubGetMethodID(static, namePtr, sigPtr) ==
  /\ StubCalled
  /\ \E key \in {(IF static THEN StaticPrefix ELSE <<>>) \o jniStringAt[namePtr][256]
                   \o jniStringAt[sigPtr][256]} :
       \E ref \in {internRef(methodRefs, key,
                             Add64(JniMockObjBase, Word(IF static THEN 2 ELSE 1, 0)),
                             nextRef.method)} :
         /\ methodRefs' = (key :> ref) @@ methodRefs
         /\ nextRef' = IF key \in DOMAIN methodRefs THEN nextRef
                       ELSE [nextRef EXCEPT !.method = AddI(@, 8)]
         /\ jmethods' = jmethods \cup
              {<<static, cstringIn(Memory, namePtr), cstringIn(Memory, sigPtr), ref>>}
         /\ jlast' = [NoJniCall EXCEPT !.fn = "GetMethodID", !.x0 = ref]
  /\ UNCHANGED <<guardState, acquired, jniStrings, classRefs, jclasses, jorig,
                 heapPtr, panicked, gmem, blocks>>

stubNewStringUTF(utfPtr) ==
  /\ StubCalled
  /\ \E ref \in {Add64(JniMockObjBase, nextRef.string)} :
       /\ jniStrings' = (ref :> jniStringAt[utfPtr][4096]) @@ jniStrings
       /\ jorig' = (ref :> cstringAt[utfPtr]) @@ jorig
       /\ jlast' = [NoJniCall EXCEPT !.fn = "NewStringUTF", !.x0 = ref]
  /\ nextRef' = [nextRef EXCEPT !.string = AddI(@, 8)]
  /\ UNCHANGED <<guardState, acquired, classRefs, methodRefs, jclasses, jmethods,
                 heapPtr, panicked, gmem, blocks>>

\* e.jniStrings[jstr]: the zero value for a reference that is not a key.
trackedString(strs, jstr) == IF jstr \in DOMAIN strs THEN strs[jstr] ELSE <<>>

stubGetStringUTFChars(jstr, isCopyPtr) ==
  /\ StubCalled
  /\ \E str \in {trackedString(jniStrings, jstr)} :
       \E m \in {Malloc(heapPtr, FromInt(Len(str) + 1))} :
         /\ heapPtr' = m.heapPtr
         /\ panicked' = m.panic
         /\ blocks' = IF m.panic THEN blocks
                      ELSE Append(blocks, [addr |-> m.addr, size |-> FromInt(Len(str) + 1)])
         /\ gmem' = IF m.panic THEN gmem
                    ELSE IF isCopyPtr = Zero64 THEN MemWrite(gmem, m.addr, str \o <<0>>)
                    ELSE MemWrite(MemWrite(gmem, m.addr, str \o <<0>>), isCopyPtr, <<1>>)
         /\ jlast' = [fn |-> "GetStringUTFChars", ref |-> jstr, isCopy |-> isCopyPtr,
                      x0 |-> m.addr]
  /\ UNCHANGED <<guardState, acquired, jniStrings, classRefs, methodRefs, nextRef,
                 jclasses, jmethods, jorig>>

stubGetStringUTFLength(jstr) ==
  /\ StubCalled
  /\ jlast' = [fn |-> "GetStringUTFLength", ref |-> jstr, isCopy |-> Zero64,
               x0 |-> FromInt(Len(trackedString(jniStrings, jstr)))]
  /\ UNCHANGED <<guardState, acquired, jniStrings, classRefs, methodRefs, nextRef,
                 jclasses, jmethods, jorig, heapPtr, panicked, gmem, blocks>>

\* stubNewByteArray: Malloc(length + 16) and the length stored at its start.
stubNewByteArray(length) ==
  /\ StubCalled
  /\ \E m \in {Malloc(heapPtr, AddI(length, 16))} :
       /\ heapPtr' = m.heapPtr
       /\ panicked' = m.panic
       /\ blocks' = IF m.panic THEN blocks
                    ELSE Append(blocks, [addr |-> m.addr, size |-> AddI(length, 16)])
       /\ gmem' = IF m.panic THEN gmem ELSE MemWrite(gmem, m.addr, LE64(length))
       /\ jlast' = [NoJniCall EXCEPT !.fn = "NewByteArray", !.x0 = m.addr]
  /\ UNCHANGED <<guardState, acquired, jniStrings, classRefs, methodRefs, nextRef,
                 jclasses, jmethods, jorig>>

NextStubs ==
  \/ \E g \in GuardPool : stubCxaGuardAcquire(g)
  \/ \E g \in GuardPool, abort \in BOOLEAN : stubCxaGuardRelease(g, abort)
  \/ ClearGuardState
  \/ \E namePtr \in {Ptr.sA, Ptr.sAB} : stubFindClass(namePtr)
  \/ \E static \in BOOLEAN, namePtr \in {Ptr.sA, Ptr.sAB}, sigPtr \in {Ptr.sBC, Ptr.sC} :
       stubGetMethodID(static, namePtr, sigPtr)
  \/ \E utfPtr \in UtfPtrs : stubNewStringUTF(utfPtr)
  \/ \E jstr \in DOMAIN jniStrings, isCopyPtr \in IsCopyPool :
       stubGetStringUTFChars(jstr, isCopyPtr)
  \/ \E jstr \in DOMAIN jniStrings : stubGetStringUTFLength(jstr)
  \/ \E length \in LengthPool : stubNewByteArray(length)

SpecStubs == Init /\ [][NextStubs]_vars

\* The acquires among the calls on one address, in call order (ret is the X0
\* an acquire set, and 0 for the calls that set none).
acquireResults(h) == SelectSeq(h, LAMBDA e : e.op = "acquire")

\* The last call at or before k in h that changed the mark: "release",
\* "clear", or "none".
RECURSIVE lastMark(_, _)
lastMark(h, k) ==
  IF k = 0 THEN "none"
  ELSE IF h[k].op \in {"release", "clear"} THEN h[k].op
  ELSE lastMark(h, k - 1)

\* C16 as stated: for each guard address the first __cxa_guard_acquire
\* returned 1 and every later one returned 0.
C16_AcquireOnceThenZero ==
  \A g \in GuardPool :
    \A k \in 1..Len(acquireResults(acquired[g])) :
      acquireResults(acquired[g])[k].ret = (IF k = 1 THEN 1 ELSE 0)

\* C16 amended: a __cxa_guard_acquire on an address returns 0 exactly when a
\* __cxa_guard_release on that address came before it with no ClearGuardState
\* in between, and 1 otherwise, whatever was called on other addresses; so
\* acquire, release, acquire returns 1 then 0, and acquire, acquire returns
\* 1 twice.
C16_AcquireZeroAfterRelease ==
  \A g \in GuardPool :
    \A k \in 1..Len(acquired[g]) :
      acquired[g][k].op = "acquire" =>
        acquired[g][k].ret = (IF lastMark(acquired[g], k - 1) = "release" THEN 0 ELSE 1)

C16_Witness ==
  \E g, o \in GuardPool :
    /\ g # o
    /\ [k \in 1..Len(acquired[g]) |-> acquired[g][k].op] = <<"acquire", "release", "acquire">>
    /\ acquired[g][3].ret = 0
    /\ acquired[o] # <<>>
    /\ acquired[o][Len(acquired[o])] = [op |-> "acquire", ret |-> 1]

\* C19: FindClass returned equal references exactly for equal class names, and
\* GetMethodID, as GetStaticMethodID, equal IDs exactly for equal (name, sig).
C19_RefsInjective ==
  /\ \A c, d \in jclasses : (c[2] = d[2]) <=> (c[1] = d[1])
  /\ \A c, d \in jmethods :
       c[1] = d[1] => ((c[4] = d[4]) <=> (c[2] = d[2] /\ c[3] = d[3]))

\* C20: NewStringUTF(s) returned a non-zero reference r; a GetStringUTFChars
\* of r has just returned a buffer holding s and its NUL, with 1 written at
\* the isCopy pointer when it is not null; a GetStringUTFLength of r has just
\* returned len(s).
C20_StringRoundTrip ==
  /\ \A r \in DOMAIN jorig : r # Zero64
  /\ (~panicked /\ jlast.fn = "GetStringUTFChars") =>
       /\ cstringIn(gmem, jlast.x0) = jorig[jlast.ref]
       /\ AddI(jlast.x0, Len(jorig[jlast.ref])) \in DOMAIN gmem
       /\ jlast.isCopy # Zero64 => jlast.isCopy \in DOMAIN gmem /\ gmem[jlast.isCopy] = 1
  /\ jlast.fn = "GetStringUTFLength" => jlast.x0 = FromInt(Len(jorig[jlast.ref]))

(***************************************************************************)
(* ELFInfo.FindEntryPoint on the symbol table of a loaded image.  A range  *)
(* over a Go map visits the keys in an order the language leaves open: the *)
(* order is an input of each call.                                         *)
(***************************************************************************)
MaxSymbols == 3
MaxEntryCalls == 2

EntryName ==
  [registLua |-> <<"r","e","g","i","s","t","_","l","u","a">>,
   appDelegate |-> <<"A","p","p","D","e","l","e","g","a","t","e","D","i","d","F","i","n","i","s","h">>,
   didFinish |-> <<"d","i","d","F","i","n","i","s","h","L","a","u","n","c","h","i","n","g">>,
   didFinishX |-> <<"x","D","i","d","F","i","n","i","s","h","L","a","u","n","c","h","i","n","g">>,
   cocosMain |-> <<"c","o","c","o","s","_","m","a","i","n">>,
   gameInit |-> <<"_","Z","N","4","G","a","m","e","4","i","n","i","t","E","v">>,
   jniOnLoad |-> <<"J","N","I","_","O","n","L","o","a","d">>,
   jniLower |-> <<"j","n","i","_","o","n","l","o","a","d">>,
   vtable |-> <<"_","Z","T","V","_","r","e","g","i","s","t","_","l","u","a">>,
   il2cpp |-> <<"i","l","2","c","p","p","_","i","n","i","t">>]

EntryNames == <<"registLua", "appDelegate", "didFinish", "didFinishX", "cocosMain", "gameInit", "jniOnLoad", "jniLower", "vtable", "il2cpp">>

SymbolPool == {EntryName[f] : f \in DOMAIN EntryName}

\* The loader stores a symbol only with a non-zero value: every name of the
\* pool has its own address in the image.
SymbolAddr(name) ==
  AddI(LoadELFBase, 8192 + 16 * (CHOOSE k \in 1..Len(EntryNames) : EntryName[EntryNames[k]] = name))

ImageEntry == AddI(LoadELFBase, 4096)

PreferredPool ==
  {<<>>, EntryName.jniOnLoad, <<"J","N","I","_","O","N","L","O","A","D">>, <<"d","i","d","f","i","n","i","s","h">>, EntryName.il2cpp}

\* The orders a range over a map with these keys can take.
RangeOrders(keys) ==
  {o \in [1..Cardinality(keys) -> keys] : \A i, j \in 1..Cardinality(keys) : o[i] = o[j] => i = j}

EqualFold(a, b) == ToLower(a) = ToLower(b)

FindSymbol(syms, name) == IF name \in DOMAIN syms THEN syms[name] ELSE Zero64

\* for name, addr := range syms { if match(name) { return addr } }; 0 when
\* the loop ends without a return.
rangeFirst(syms, order, match(_)) ==
  IF \E i \in 1..Len(order) : match(order[i])
    THEN syms[order[CHOOSE i \in 1..Len(order) :
                      match(order[i]) /\ \A j \in 1..(i - 1) : ~match(order[j])]]
    ELSE Zero64

Exclusions ==
  <<<<"_","z","t","v">>,
    <<"_","z","t","i">>,
    <<"_","z","t","s">>,
    <<"_","_","f","u","n","c">>,
    <<"_","_","c","l","o","n","e">>,
    <<"_","_","t","a","r","g","e","t">>,
    <<"d","e","s","t","r","o","y">>,
    <<"d","e","a","l","l","o","c","a","t","e">>>>

\* The priority the candidate loop gives a symbol name, 8 for none.
NoPriority == 8

candidatePriority(name) ==
  LET lower == ToLower(name) IN
  IF ContainsAny(lower, Exclusions) THEN NoPriority
  ELSE IF Contains(lower, <<"r","e","g","i","s","t","_","l","u","a">>) THEN 0
  ELSE IF Contains(lower, <<"a","p","p","d","e","l","e","g","a","t","e">>) /\ Contains(lower, <<"d","i","d","f","i","n","i","s","h">>) THEN 1
  ELSE IF Contains(lower, <<"c","c","g","a","m","e","m","a","i","n">>) /\ Contains(lower, <<"d","i","d","f","i","n","i","s","h">>) THEN 2
  ELSE IF Contains(lower, <<"d","i","d","f","i","n","i","s","h","l","a","u","n","c","h","i","n","g">>) THEN 3
  ELSE IF Contains(lower, <<"c","o","c","o","s","_","a","n","d","r","o","i","d","_","a","p","p","_","i","n","i","t">>) THEN 4
  ELSE IF Contains(lower, <<"c","o","c","o","s","_","m","a","i","n">>) THEN 5
  ELSE IF HasPrefix(lower, <<"_","z","n","4","g","a","m","e">>) /\ Contains(lower, <<"i","n","i","t","e","v">>) THEN 6
  ELSE IF EqualFold(name, EntryName.jniOnLoad) THEN 7
  ELSE NoPriority

\* candidatePriority and the two name tests of the preferred stages, for the
\* names of the symbol pool.
priorityOf == [name \in SymbolPool |-> candidatePriority(name)]

nameMatch ==
  [name \in SymbolPool |->
     [p \in PreferredPool |->
        [fold |-> EqualFold(name, p), sub |-> Contains(ToLower(name), ToLower(p))]]]

FindJNIOnLoad(syms, order) ==
  IF FindSymbol(syms, EntryName.jniOnLoad) # Zero64 THEN syms[EntryName.jniOnLoad]
  ELSE rangeFirst(syms, order, LAMBDA name : nameMatch[name][EntryName.jniOnLoad].fold)

\* The candidates in the order the range met them.
candidates(syms, order) ==
  LET keep == SelectSeq(order, LAMBDA name :
                 syms[name] # Zero64 /\ priorityOf[name] # NoPriority)
  IN [i \in 1..Len(keep) |->
        [name |-> keep[i], addr |-> syms[keep[i]], priority |-> priorityOf[keep[i]]]]

bestOf_First(cands, k, best) == cands[1]

\* best := candidates[0]; a later candidate replaces it only with a priority
\* strictly below.
RECURSIVE bestOf(_, _, _)
bestOf(cands, k, best) ==
  IF k > Len(cands) THEN best
  ELSE bestOf(cands, k + 1, IF cands[k].priority < best.priority THEN cands[k] ELSE best)

preferredMatch(syms, preferredEntry, order) ==
  IF preferredEntry = <<>> THEN Zero64
  ELSE IF FindSymbol(syms, preferredEntry) # Zero64 THEN syms[preferredEntry]
  ELSE IF \E name \in DOMAIN syms : nameMatch[name][preferredEntry].fold
    THEN rangeFirst(syms, order, LAMBDA name : nameMatch[name][preferredEntry].fold)
  ELSE rangeFirst(syms, order, LAMBDA name : nameMatch[name][preferredEntry].sub)

FindEntryPoint(inf, preferredEntry, order) ==
  LET syms == inf.Symbols
      cands == candidates(syms, order)
  IN IF preferredMatch(syms, preferredEntry, order) # Zero64
       THEN preferredMatch(syms, preferredEntry, order)
     ELSE IF Len(cands) > 0 THEN bestOf(cands, 2, cands[1]).addr
     ELSE IF FindJNIOnLoad(syms, order) # Zero64 THEN FindJNIOnLoad(syms, order)
     ELSE inf.Entry

\* LoadELF: the image's entry and its symbols.
LoadELF(names) ==
  /\ ~info.loaded
  /\ info' = [loaded |-> TRUE, Entry |-> ImageEntry,
              Symbols |-> [name \in names |-> SymbolAddr(name)]]
  /\ UNCHANGED <<picks, seqVars, concVars, capVars, runVars, heapVars, keysVars, stubVars, lateVars>>

FindEntryPointCall(preferredEntry, order) ==
  /\ info.loaded
  /\ Len(picks) < MaxEntryCalls
  /\ picks' = Append(picks, [preferredEntry |-> preferredEntry,
                             addr |-> FindEntryPoint(info, preferredEntry, order)])
  /\ UNCHANGED <<info, seqVars, concVars, capVars, runVars, heapVars, keysVars, stubVars, lateVars>>

NextEntry ==
  \/ \E names \in SUBSET SymbolPool : Cardinality(names) <= MaxSymbols /\ LoadELF(names)
  \/ \E preferredEntry \in PreferredPool, order \in RangeOrders(DOMAIN info.Symbols) :
       FindEntryPointCall(preferredEntry, order)

SpecEntry == Init /\ [][NextEntry]_vars

\* The symbols of the table that match a priority pattern and no exclusion.
qualifying(syms) == {name \in DOMAIN syms : priorityOf[name] # NoPriority}

C18_Deterministic ==
  \A j, k \in 1..Len(picks) :
    picks[j].preferredEntry = picks[k].preferredEntry => picks[j].addr = picks[k].addr

(***************************************************************************)
(* The libc++ std::string of the cxxabi stubs: WriteSSOString,             *)
(* ReadSSOString, GetSSODataPtr and GetSSOLength on objects the caller     *)
(* owns (allocated with Malloc(24), or on its stack).                      *)
(***************************************************************************)
SSOMaxLen == 22
SSOObjSize == 24
MaxSsoLen == 256
MaxSsoWrites == 2
MaxSsoObjects == 3

\* A printable string of n bytes.
printableOf(n) == [i \in 1..n |-> 32 + ((i * 7 + n) % 95)]

SsoStrings == {printableOf(n) : n \in {0, SSOMaxLen, SSOMaxLen + 1, MaxSsoLen}}

\* Emulator.MemRead on the memory the stubs wrote: a mapping starts zeroed.
memReadIn(mem, a, n) ==
  IF Mapped(a, n)
    THEN [ok |-> TRUE, data |-> [i \in 1..n |-> byteIn(mem, AddI(a, i - 1))]]
    ELSE NoBytes

lowPage(addr) == Lt(addr, FromInt(4096))
toInt(w) == w[3] * WordMod + w[4]

\* The readers once the 24 bytes of the object are read (rd), for a long
\* string once its bytes are read (strData).
ssoLong(rd) == rd.data[1] % 2 = 1
ssoStringIf(strData) == IF strData.ok THEN [ok |-> TRUE, str |-> strData.data] ELSE NoString

ssoLongString(mem, length, dataPtr) ==
  IF Lt(FromInt(4096), length) \/ lowPage(dataPtr) THEN NoString
  ELSE ssoStringIf(memReadIn(mem, dataPtr, toInt(length)))

ssoShortString(data, length) ==
  IF length > SSOMaxLen THEN NoString ELSE [ok |-> TRUE, str |-> SubSeq(data, 2, 1 + length)]

ssoStringOf(mem, rd) ==
  IF ~rd.ok THEN NoString
  ELSE IF ssoLong(rd) THEN ssoLongString(mem, FromLE64(rd.data, 9), FromLE64(rd.data, 17))
  ELSE ssoShortString(rd.data, rd.data[1] \div 2)

ReadSSOString(mem, addr) ==
  IF lowPage(addr) THEN NoString ELSE ssoStringOf(mem, memReadIn(mem, addr, SSOObjSize))

ssoDataPtrOf(addr, rd) ==
  IF ~rd.ok THEN Zero64
  ELSE IF ssoLong(rd) THEN FromLE64(rd.data, 17)
  ELSE AddI(addr, 1)

GetSSODataPtr(mem, addr) ==
  IF lowPage(addr) THEN Zero64 ELSE ssoDataPtrOf(addr, memReadIn(mem, addr, SSOObjSize))

ssoLengthOf(rd) ==
  IF ~rd.ok THEN Zero64
  ELSE IF ssoLong(rd) THEN FromLE64(rd.data, 9)
  ELSE FromInt(rd.data[1] \div 2)

GetSSOLength(mem, addr) ==
  IF lowPage(addr) THEN Zero64 ELSE ssoLengthOf(memReadIn(mem, addr, SSOObjSize))

ssoIsShort_Lt(strLen) == strLen < SSOMaxLen

\* if strLen <= SSOMaxLen
ssoIsShort(strLen) == strLen <= SSOMaxLen

\* The 24 bytes of a short and of a long object.
ssoShortData(str) ==
  SubSeq(<<(2 * Len(str)) % 256>> \o str \o [i \in 1..SSOObjSize |-> 0], 1, SSOObjSize)
ssoLongData(bufSize, strLen, dataPtr) ==
  LE64(AddI(bufSize, 1)) \o LE64(FromInt(strLen)) \o LE64(dataPtr)

ssoWritten(hp, panic, err, mem) == [heapPtr |-> hp, panic |-> panic, err |-> err, mem |-> mem]

\* WriteSSOString: the heap pointer and the memory after it, whether Malloc
\* panicked, and whether it returned an error.
WriteSSOString(hp, mem, addr, str) ==
  IF ssoIsShort(Len(str))
    THEN CHOOSE w \in {ssoWritten(hp, FALSE, ~Mapped(addr, SSOObjSize), MemWrite(mem, addr, d))
                        : d \in {ssoShortData(str)}} : TRUE
    ELSE CHOOSE w \in
      { IF m.panic THEN ssoWritten(m.heapPtr, TRUE, FALSE, mem)
        ELSE IF ~Mapped(m.addr, Len(str) + 1) THEN ssoWritten(m.heapPtr, FALSE, TRUE, mem)
        ELSE CHOOSE v \in
          { ssoWritten(m.heapPtr, FALSE, ~Mapped(addr, SSOObjSize), MemWrite(mem1, addr, d))
            : mem1 \in {MemWrite(mem, m.addr, d0) : d0 \in {str \o <<0>>}},
              d \in {ssoLongData(alignUp(FromInt(Len(str) + 1)), Len(str), m.addr)} } : TRUE
        : m \in {Malloc(hp, alignUp(FromInt(Len(str) + 1)))} } : TRUE

\* The caller allocates a std::string object: emu.Malloc(24).
NewStringObject ==
  /\ ~panicked
  /\ Cardinality(DOMAIN ssoObjs) < MaxSsoObjects
  /\ \E m \in {Malloc(heapPtr, FromInt(SSOObjSize))} :
       /\ heapPtr' = m.heapPtr
       /\ panicked' = m.panic
       /\ blocks' = IF m.panic THEN blocks
                    ELSE Append(blocks, [addr |-> m.addr, size |-> FromInt(SSOObjSize)])
       /\ ssoObjs' = IF m.panic THEN ssoObjs ELSE (m.addr :> Unwritten) @@ ssoObjs
  /\ UNCHANGED <<gmem, vcall, ssoWrites, nonSsoVars>>

WriteSSOStringCall(addr, str) ==
  /\ ~panicked
  /\ ssoWrites < MaxSsoWrites
  /\ ssoWrites' = ssoWrites + 1
  /\ \E w \in {WriteSSOString(heapPtr, gmem, addr, str)} :
       /\ heapPtr' = w.heapPtr
       /\ panicked' = w.panic
       /\ gmem' = w.mem
       /\ ssoObjs' = IF w.panic \/ w.err THEN ssoObjs
                     ELSE [ssoObjs EXCEPT ![addr] = [written |-> TRUE, str |-> str]]
  /\ UNCHANGED <<blocks, vcall, nonSsoVars>>

NextSso ==
  \/ NewStringObject
  \/ \E addr \in DOMAIN ssoObjs, str \in SsoStrings : WriteSSOStringCall(addr, str)

SpecSso == Init /\ [][NextSso]_vars

inHeap(a) == Le(HeapBase, a) /\ Lt(a, Add64(HeapBase, HeapSize))

\* C21: every object holds, for ReadSSOString, the string last written to
\* it, and its length for GetSSOLength; its data pointer is addr + 1 exactly
\* when the string has at most 22 bytes, and otherwise a heap address
\* outside the 24 bytes of the object.
C21_SsoRoundTrip ==
  \A addr \in DOMAIN ssoObjs :
    ssoObjs[addr].written =>
      LET str == ssoObjs[addr].str
          dataPtr == GetSSODataPtr(gmem, addr)
      IN /\ ReadSSOString(gmem, addr) = [ok |-> TRUE, str |-> str]
         /\ GetSSOLength(gmem, addr) = FromInt(Len(str))
         /\ (dataPtr = AddI(addr, 1)) <=> (Len(str) <= 22)
         /\ Len(str) > 22 =>
              /\ inHeap(dataPtr)
              /\ Le(AddI(addr, 24), dataPtr) \/ Le(AddI(dataPtr, Len(str) + 1), addr)

\* A string of 23 bytes in a heap object next to one of 22 bytes on the stack.
C21_Witness ==
  /\ ssoWrites = 2
  /\ ssoObjs[StackObject] = [written |-> TRUE, str |-> printableOf(22)]
  /\ \E addr \in DOMAIN ssoObjs :
       /\ inHeap(addr)
       /\ ssoObjs[addr] = [written |-> TRUE, str |-> printableOf(23)]

(***************************************************************************)
(* Emulator.applyRelocations over the RELA entries of .rela.dyn and        *)
(* .rela.plt, with the dynamic symbols of a sample file.  An entry is      *)
(* r_offset, the type and symbol index of r_info, and r_addend.            *)
(***************************************************************************)
MaxRelocs == 2
MaxPasses == 2

TLSBase == Word(57004, 0)

relocOffset == LoadELFBase

\* f.DynamicSymbols(): the symbols after STN_UNDEF; symbol index i of a
\* relocation is element i.
RelocName ==
  [fn |-> <<"f","n">>, malloc |-> <<"m","a","l","l","o","c">>, free |-> <<"f","r","e","e">>, freeV |-> <<"f","r","e","e","@","L","I","B","C">>, ext |-> <<"e","x","t">>, none |-> <<>>,
   dup |-> <<"d","u","p">>, guard |-> <<"_","_","s","t","a","c","k","_","c","h","k","_","g","u","a","r","d">>,
   ctype |-> <<"_","c","t","y","p","e","_">>]

DynSyms ==
  << [Name |-> RelocName.fn, Value |-> FromInt(4096)],
     [Name |-> RelocName.malloc, Value |-> Zero64],
     [Name |-> RelocName.freeV, Value |-> Zero64],
     [Name |-> RelocName.ext, Value |-> Zero64],
     [Name |-> RelocName.none, Value |-> Zero64],
     [Name |-> RelocName.dup, Value |-> FromInt(8192)],
     [Name |-> RelocName.guard, Value |-> Zero64],
     [Name |-> RelocName.ctype, Value |-> Zero64] >>

\* f.Symbols(): .symtab, with a local symbol named as a dynamic one.
SymTab == << [Name |-> RelocName.dup, Value |-> FromInt(12288)] >>

\* info.Imports after addPLTSymbols: the PLT entries of malloc and free.
RelocImports ==
  (RelocName.malloc :> AddI(PltBase, 32)) @@
  (RelocName.free :> AddI(PltBase, 48)) @@
  (RelocName.freeV :> AddI(PltBase, 48))

\* symName[:idx] for the first "@" of the name, the name without one.
stripVersion(name) ==
  IF \E i \in 1..Len(name) : name[i] = "@"
    THEN SubSeq(name, 1, (CHOOSE i \in 1..Len(name) :
                            name[i] = "@" /\ \A j \in 1..(i - 1) : name[j] # "@") - 1)
    ELSE name

\* info.Symbols as LoadELFAt fills it from .dynsym and then .symtab: the
\* symbols with a value and a name, a later one replacing an earlier one.
RECURSIVE storeSymbols(_, _, _)
storeSymbols(symbols, syms, k) ==
  IF k > Len(syms) THEN symbols
  ELSE IF syms[k].Value = Zero64 \/ syms[k].Name = <<>> THEN storeSymbols(symbols, syms, k + 1)
  ELSE storeSymbols((syms[k].Name :> Add64(syms[k].Value, relocOffset)) @@ symbols, syms, k + 1)

ElfSymbols == storeSymbols(storeSymbols(<<>>, DynSyms, 1), SymTab, 1)

NoWrite == [write |-> FALSE, value |-> Zero64]
Resolved(value) == [write |-> TRUE, value |-> value]

\* rAddend > 0, for the int64 the addend is.
positive(addend) == addend # Zero64 /\ addend[1] < 32768

hasSymbol(symIdx) == symIdx \in 1..Len(DynSyms)

abs64Internal_NoAddend(value, addend) == Resolved(Add64(value, relocOffset))

\* resolved := sym.Value + relocOffset + uint64(rAddend)
abs64Internal(value, addend) == Resolved(Add64(Add64(value, relocOffset), addend))

abs64NoSymbol_AnyAddend(addend) == Resolved(Add64(relocOffset, addend))

\* } else if rAddend > 0 { resolved := relocOffset + uint64(rAddend)
abs64NoSymbol(addend) ==
  IF positive(addend) THEN Resolved(Add64(relocOffset, addend)) ELSE NoWrite

\* What one entry stores at its target, if anything.
resolve(imports, entry) ==
  IF entry.type = "R_AARCH64_RELATIVE" THEN Resolved(Add64(relocOffset, entry.addend))
  ELSE IF entry.type \in {"R_AARCH64_GLOB_DAT", "R_AARCH64_JUMP_SLOT"}
    THEN IF ~hasSymbol(entry.sym) THEN NoWrite
         ELSE IF DynSyms[entry.sym].Value # Zero64
           THEN Resolved(Add64(DynSyms[entry.sym].Value, relocOffset))
         ELSE IF DynSyms[entry.sym].Name = RelocName.guard THEN Resolved(AddI(TLSBase, 40))
         ELSE IF DynSyms[entry.sym].Name = RelocName.ctype THEN Resolved(AddI(LibcBase, 1))
         ELSE NoWrite
  ELSE IF entry.type = "R_AARCH64_ABS64"
    THEN IF hasSymbol(entry.sym)
           THEN IF DynSyms[entry.sym].Value # Zero64
                  THEN abs64Internal(DynSyms[entry.sym].Value, entry.addend)
                ELSE IF DynSyms[entry.sym].Name # <<>>
                        /\ stripVersion(DynSyms[entry.sym].Name) \in DOMAIN imports
                  THEN Resolved(Add64(imports[stripVersion(DynSyms[entry.sym].Name)],
                                      entry.addend))
                ELSE NoWrite
           ELSE abs64NoSymbol(entry.addend)
  ELSE NoWrite

\* _ = e.MemWrite(targetAddr, buf) for the entries from k on.
RECURSIVE applyFrom(_, _, _, _)
applyFrom(mem, imports, table, k) ==
  IF k > Len(table) THEN mem
  ELSE applyFrom(
         CHOOSE m \in { IF r.write
                          THEN MemWrite(mem, Add64(table[k].offset, relocOffset), LE64(r.value))
                          ELSE mem : r \in {resolve(imports, table[k])} } : TRUE,
         imports, table, k + 1)

applyRelocations(mem, imports, table) == applyFrom(mem, imports, table, 1)

\* r_offset: two qwords of the image's data, and one past the mapped image.
RelocOffsets == {FromInt(16384 + 256), FromInt(16384 + 264)}
UnmappedOffset == ImageSize

Minus8 == <<65535, 65535, 65535, 65528>>

RelocEntry(type, sym, offset, addend) ==
  [type |-> type, sym |-> sym, offset |-> offset, addend |-> addend]

RelocPool ==
  {RelocEntry("R_AARCH64_RELATIVE", 0, FromInt(16384 + 256), FromInt(16)),
   RelocEntry("R_AARCH64_RELATIVE", 0, FromInt(16384 + 264), Minus8),
   RelocEntry("R_AARCH64_RELATIVE", 0, UnmappedOffset, FromInt(16))}
  \cup {RelocEntry("R_AARCH64_ABS64", i, FromInt(16384 + 256), FromInt(16)) : i \in 0..6}
  \cup {RelocEntry("R_AARCH64_ABS64", i, FromInt(16384 + 264), Zero64) : i \in {0, 2, 3, 5}}
  \cup {RelocEntry("R_AARCH64_ABS64", i, FromInt(16384 + 264), Minus8) : i \in {0, 1}}
  \cup {RelocEntry("R_AARCH64_GLOB_DAT", i, FromInt(16384 + 264), Zero64) : i \in {1, 7, 8}}
  \cup {RelocEntry("R_AARCH64_JUMP_SLOT", 2, FromInt(16384 + 256), Zero64),
        RelocEntry("R_AARCH64_TLSDESC", 1, FromInt(16384 + 256), FromInt(16))}

\* LoadELFAt reads the file: its relocation table.
ReadRelocs(table) ==
  /\ rpasses = 0
  /\ relocs = <<>>
  /\ table # <<>>
  /\ relocs' = table
  /\ UNCHANGED <<rmem, rpasses, rfirst, nonRelocVars>>

ApplyRelocationsCall ==
  /\ relocs # <<>>
  /\ rpasses < MaxPasses
  /\ rpasses' = rpasses + 1
  /\ \E mem \in {applyRelocations(rmem, RelocImports, relocs)} :
       /\ rmem' = mem
       /\ rfirst' = IF rpasses = 0 THEN mem ELSE rfirst
  /\ UNCHANGED <<relocs, nonRelocVars>>

NextReloc ==
  \/ \E n \in 1..MaxRelocs : \E table \in [1..n -> RelocPool] : ReadRelocs(table)
  \/ ApplyRelocationsCall

SpecReloc == Init /\ [][NextReloc]_vars

\* The qword an entry's target holds, and whether guest memory can be read there.
targetOf(entry) == Add64(entry.offset, relocOffset)
stored(entry, value) ==
  \E rd \in {memReadIn(rmem, targetOf(entry), 8)} : rd.ok /\ FromLE64(rd.data, 1) = value
unwritten(entry) == \A i \in 0..7 : AddI(targetOf(entry), i) \notin DOMAIN rmem

\* No later entry stores over entry k; no other entry has its target.
lastOn(k) == \A j \in (k + 1)..Len(relocs) : relocs[j].offset # relocs[k].offset
soleOn(k) == \A j \in 1..Len(relocs) : j # k => relocs[j].offset # relocs[k].offset

internal(entry) == hasSymbol(entry.sym) /\ DynSyms[entry.sym].Value # Zero64
uniqueName(name) ==
  Cardinality({i \in 1..Len(DynSyms) : DynSyms[i].Name = name /\ DynSyms[i].Value # Zero64})
    + Cardinality({i \in 1..Len(SymTab) : SymTab[i].Name = name /\ SymTab[i].Value # Zero64}) = 1

idempotent == rpasses = 2 => rmem = rfirst

abs64Symbol(entry) ==
  IF hasSymbol(entry.sym) THEN DynSyms[entry.sym] ELSE [Name |-> <<>>, Value |-> Zero64]
hasStub(entry) ==
  abs64Symbol(entry).Name # <<>> /\ stripVersion(abs64Symbol(entry).Name) \in DOMAIN RelocImports

\* C26 as the specification words it: st_value # 0 stores base + st_value +
\* addend; else a named symbol with a PLT stub stores plt_stub + addend; else
\* addend > 0 stores base + addend; otherwise the target is left unwritten.
C26_AddendFallsThrough ==
  rpasses >= 1 =>
    \A k \in 1..Len(relocs) : relocs[k].type = "R_AARCH64_ABS64" /\ soleOn(k) =>
      IF abs64Symbol(relocs[k]).Value # Zero64
        THEN stored(relocs[k], Add64(Add64(relocOffset, abs64Symbol(relocs[k]).Value),
                                     relocs[k].addend))
      ELSE IF hasStub(relocs[k])
        THEN stored(relocs[k], Add64(RelocImports[stripVersion(abs64Symbol(relocs[k]).Name)],
                                     relocs[k].addend))
      ELSE IF positive(relocs[k].addend)
        THEN stored(relocs[k], Add64(relocOffset, relocs[k].addend))
      ELSE unwritten(relocs[k])

\* C26, amended: st_value # 0 stores base + st_value + addend; else a named
\* symbol with a PLT stub stores plt_stub + addend; else, when the entry's
\* symbol index names no dynamic symbol and addend > 0, base + addend is
\* stored; otherwise the target is left unwritten.
C26_AddendOnlyWithoutSymbol ==
  rpasses >= 1 =>
    \A k \in 1..Len(relocs) : relocs[k].type = "R_AARCH64_ABS64" /\ soleOn(k) =>
      IF abs64Symbol(relocs[k]).Value # Zero64
        THEN stored(relocs[k], Add64(Add64(relocOffset, abs64Symbol(relocs[k]).Value),
                                     relocs[k].addend))
      ELSE IF hasStub(relocs[k])
        THEN stored(relocs[k], Add64(RelocImports[stripVersion(abs64Symbol(relocs[k]).Name)],
                                     relocs[k].addend))
      ELSE IF ~hasSymbol(relocs[k].sym) /\ positive(relocs[k].addend)
        THEN stored(relocs[k], Add64(relocOffset, relocs[k].addend))
      ELSE unwritten(relocs[k])

\* An entry against the versioned import free@LIBC stored the stub of free, and
\* an entry against an import without a stub, addend 16, stored nothing.
C26_Witness ==
  /\ rpasses = 1
  /\ relocs = <<RelocEntry("R_AARCH64_ABS64", 4, FromInt(16384 + 256), FromInt(16)),
                RelocEntry("R_AARCH64_ABS64", 3, FromInt(16384 + 264), Zero64)>>
  /\ unwritten(relocs[1])
  /\ stored(relocs[2], AddI(PltBase, 48))

(***************************************************************************)
(* The guest walks the mock object graph, calls into mock_obj2, and runs   *)
(* the hooks makeMockHook builds for internal functions.                   *)
(***************************************************************************)
MaxMockCalls == 2

\* The 4-byte slots of the page of mock_obj2, which ends where the vtable
\* stubs begin.
MockObj2Slots == (rel(vtableStubs) - rel(mockObj2)) \div 4

\* A byte as emulator.New left it, unwritten mapped bytes being zero.
newByte(o) == IF o \in DOMAIN mapMemory THEN mapMemory[o] ELSE 0

\* The bytes of guest memory at a.
bytesAt(mem, a, n) ==
  [i \in 1..n |-> IF rel(a) + i - 1 \in DOMAIN mem THEN mem[rel(a) + i - 1] ELSE newByte(rel(a) + i - 1)]
read64(mem, a) == FromLE64(bytesAt(mem, a, 8), 1)

inMockRegion(a) == Le(MockObjBase, a) /\ Lt(a, AddI(MockObjBase, WordMod))

MemberSlots == {0, 1, 32, 33, VtableStubCount - 1}

\* A stub: hooked, and holding RET.
isHookedStub(mem, hooks, a) ==
  /\ inMockRegion(a)
  /\ rel(a) \in DOMAIN hooks
  /\ hooks[rel(a)] \in {"vtable", "callback"}
  /\ bytesAt(mem, a, 4) = retInsn

\* ldr x, [mptr, #8*i]: the guest loads through pointers into the mock
\* region, a stub it would call.
Load(i) ==
  /\ inMockRegion(mptr)
  /\ ~isHookedStub(mmem, mapMemoryHooks, mptr)
  /\ mptr' = read64(mmem, AddI(mptr, 8 * i))
  /\ mdepth' = mdepth + 1
  /\ UNCHANGED <<mmem, mret, mcalls, nonMockVars>>

\* makeMockObj2CallHook: emu.SetX(0, mockObj); return false.
mockObj2CallHook(x0) == mockObj

\* blr mock_obj2 + 4k with X0 = x0: the address hook runs if there is one,
\* then the engine executes the four bytes at the address, which return to
\* the caller when they are RET.
BlrMockObj2(k, x0) ==
  /\ mret' = [op |-> "blr", arg |-> ToString(k),
              x0 |-> IF rel(mockObj2) + 4 * k \in DOMAIN mapMemoryHooks THEN mockObj2CallHook(x0) ELSE x0,
              returned |-> bytesAt(mmem, AddI(mockObj2, 4 * k), 4) = retInsn]
  /\ UNCHANGED <<mmem, mptr, mdepth, mcalls, nonMockVars>>

Behaviors == {"rtti", "object", "value_ref", "bool", "void", "string", "int", "unknown"}

\* emu.MemWrite(a, bytes), the error dropped.
mockWrite(mem, a, bytes) == IF Mapped(a, Len(bytes)) THEN put(mem, a, bytes) ELSE mem

\* x8 != 0 && x8 > 0x1000 && x8 < 0x7000000000000000
stringBuffer(x8) == Lt(FromInt(4096), x8) /\ x8[1] < 28672

\* makeMockHook(name, behavior): X0 and guest memory after the hook.
makeMockHook(behavior, mem, x0, x8) ==
  CASE behavior = "rtti" -> [x0 |-> Zero64, mem |-> mem]
    [] behavior = "object" -> [x0 |-> mockObj, mem |-> mem]
    [] behavior = "value_ref" ->
         [x0 |-> AddI(mockObj, 256), mem |-> mockWrite(mem, AddI(mockObj, 256), [i \in 1..16 |-> 0])]
    [] behavior = "bool" -> [x0 |-> FromInt(1), mem |-> mem]
    [] behavior = "void" -> [x0 |-> x0, mem |-> mem]
    [] behavior = "string" ->
         [x0 |-> x8,
          mem |-> IF stringBuffer(x8) THEN mockWrite(mem, x8, [i \in 1..8 |-> 0]) ELSE mem]
    [] behavior = "int" -> [x0 |-> Zero64, mem |-> mem]
    [] OTHER -> [x0 |-> mockObj, mem |-> mem]

\* Behavior, X0 and X8 at the hook: X0 matters to void, X8 to string.
MockHookInputs ==
  {<<b, Zero64, Zero64>> : b \in Behaviors \ {"void", "string"}}
  \cup {<<"void", x0, Zero64>> : x0 \in {Zero64, mockObj2}}
  \cup {<<"string", Zero64, x8>> : x8 \in {Zero64, AddI(StackBase, 65528), AddI(mockObj, 40)}}

\* The guest reaches a function an internal mock hook stands for.
MockHookCall(behavior, x0, x8) ==
  /\ mcalls < MaxMockCalls
  /\ mcalls' = mcalls + 1
  /\ \E r \in {makeMockHook(behavior, mmem, x0, x8)} :
       /\ mmem' = r.mem
       /\ mret' = [op |-> "hook", arg |-> behavior, x0 |-> r.x0, returned |-> TRUE]
  /\ UNCHANGED <<mptr, mdepth, nonMockVars>>

BlrSlots == {0, 1, 2, 3, VtableStubCount - 1, VtableStubCount, MockObj2Slots - 1}

NextMock ==
  \/ \E i \in MemberSlots : Load(i)
  \/ \E k \in BlrSlots, x0 \in {Zero64, mockObj2} : BlrMockObj2(k, x0)
  \/ \E in \in MockHookInputs : MockHookCall(in[1], in[2], in[3])

SpecMock == Init /\ [][NextMock]_vars

\* The pointers in the 256 slots of the structures at ptrs.
slotsOf(mem, ptrs) ==
  {read64(mem, AddI(p, 8 * i)) : p \in ptrs, i \in 0..(VtableStubCount - 1)}

\* A mock object or the mock vtable.
isMockObject(a) == a \in {mockObj, mockObj2, mockVtable}
mockOrStub(mem, hooks, ptrs) == \A a \in ptrs : isMockObject(a) \/ isHookedStub(mem, hooks, a)
objectsIn(ptrs) == {a \in ptrs : isMockObject(a)}

memberSlotsHold(mem) ==
  \A i \in 1..(VtableStubCount - 1) : read64(mem, AddI(mockObj, 8 * i)) = mockObj2

\* C23: after New(), before any mock hook ran: *mock_obj and *mock_obj2 are
\* mock_vtable, the slots mock_obj + 8i, 1 <= i < 256, hold mock_obj2, and
\* every pointer found in the slots of mock_obj, of the structures those
\* point to, and of the structures these point to, is a mock structure
\* (mock_obj, mock_obj2, mock_vtable) or a hooked stub holding RET.
C23_MockGraph ==
  mcalls = 0 =>
    /\ read64(mmem, mockObj) = mockVtable
    /\ read64(mmem, mockObj2) = mockVtable
    /\ memberSlotsHold(mmem)
    /\ \E one \in {slotsOf(mmem, {mockObj})} :
         /\ mockOrStub(mmem, mapMemoryHooks, one)
         /\ \E two \in {slotsOf(mmem, objectsIn(one))} :
              /\ mockOrStub(mmem, mapMemoryHooks, two)
              /\ mockOrStub(mmem, mapMemoryHooks, slotsOf(mmem, objectsIn(two)))
    /\ mdepth >= 1 => isMockObject(mptr) \/ isHookedStub(mmem, mapMemoryHooks, mptr)

\* The guest loaded mock_obj[8], then slot 0 of it, then slot 255 of that:
\* the last vtable stub.
C23_Witness ==
  /\ mcalls = 0
  /\ mdepth = 3
  /\ mptr = AddI(vtableStubs, 4 * (VtableStubCount - 1))

\* C25: every address mock_obj2 + 4k of the mock_obj2 page holds RET and
\* has an address hook, and a blr to it returns with X0 = mock_obj.
C25_MockObj2Callable ==
  /\ mcalls = 0 =>
       \A k \in 0..(MockObj2Slots - 1) :
         /\ bytesAt(mmem, AddI(mockObj2, 4 * k), 4) = retInsn
         /\ rel(mockObj2) + 4 * k \in DOMAIN mapMemoryHooks
  /\ mret.op = "blr" => mret.returned /\ mret.x0 = mockObj

\* C29: a value_ref hook returns a block outside the mock-object region, and
\* the slots mock_obj + 8i, 1 <= i < 256, hold mock_obj2 after any sequence
\* of mock hooks.
C29_MockHooksKeepSlots ==
  /\ mret.op = "hook" /\ mret.arg = "value_ref" => ~inMockRegion(mret.x0)
  /\ memberSlotsHold(mmem)

(***************************************************************************)
(* Registry.Install and the bytes at the PLT entries it hooks.             *)
(***************************************************************************)

\* C24: at every PLT stub address where the last Install attached a
\* StubDef hook or a fallback, guest memory holds a 4-byte RET.
C24_InstallWritesRet ==
  nInstalls > 0 =>
    \A a \in (lastInstall.stubHooked \cup lastInstall.fallbackHooked) \cap ImportAddrs :
      /\ a \in DOMAIN addrHooks[lastInstall.emu]
      /\ pltInsn[lastInstall.emu][a] = retInsn

(***************************************************************************)
(* The key types and risk levels of the captured keys.                     *)
(***************************************************************************)
KeyTypes == {"xxtea", "signature", "crypto", "aes", "unknown"}
RiskLevels == {"critical", "high", "medium", "low"}

\* C27: every captured key has key_type in {xxtea, signature, crypto, aes,
\* unknown} and risk_level in {critical, high, medium, low}, and a key
\* captured from a setter's signature arguments, its source ending in
\* [signature], has key_type signature.
C27_KeyTypesAndRisks ==
  \A k \in 1..Len(capturedKeys) :
    /\ capturedKeys[k].keyType \in KeyTypes
    /\ capturedKeys[k].riskLevel \in RiskLevels
    /\ HasSuffix(capturedKeys[k].source, SignatureSuffix) => capturedKeys[k].keyType = "signature"

(***************************************************************************)
(* Package jni: activateJNI, NewEnv, Env.Install and the reference stubs.  *)
(* A reference is written as its distance from Env.mockObjBase, and the    *)
(* addresses of Env.Install as their distance from StubBase + 0x10000.     *)
(***************************************************************************)
MaxStringRefs == 513
MaxIds == 1

jniPatterns ==
  << <<"J","N","I","_","O","n","L","o","a","d">>, <<"_","J","N","I","E","n","v">>,
     <<"J","a","v","a","V","M">>, <<"G","e","t","E","n","v">>,
     <<"A","t","t","a","c","h","C","u","r","r","e","n","t","T","h","r","e","a","d">> >>

\* The symbol names of two images, one of a JNI library.
JniSymbolTables == {{EntryName.jniOnLoad, Sym.malloc}, {Sym.malloc, Sym.jsb}}

jniMatches ==
  [syms \in JniSymbolTables |->
     \E n \in syms : \E k \in 1..Len(jniPatterns) : matchPattern(n, jniPatterns[k])]

\* NewEnv(emu) and then Env.Install().
NewEnv(emu) ==
  [emu |-> emu,
   jniStrings |-> [r \in {} |-> <<>>],
   classRefs |-> [n \in {} |-> 0],
   methodRefs |-> [k \in {} |-> 0],
   fieldRefs |-> [k \in {} |-> 0],
   nextStringRef |-> 4096,
   nextClassRef |-> 8192,
   nextMethodRef |-> 12288,
   nextFieldRef |-> 16384,
   jniEnvBase |-> 0,
   javaVMBase |-> 12288]

\* currentEnv = NewEnv(emu); currentEnv.Install()
activateJNI(env, emu) == NewEnv(emu)

\* stubs.Install(emu, imports, symbols), for the detector jni: the registry
\* forgets its activations when the emulator is another one, and
\* checkDetectors activates jni when it is not activated and a symbol
\* matches.
StubsInstall(e, syms) ==
  /\ \E act \in {jniActivated /\ jniEmu = e} :
       \E runs \in {~act /\ jniMatches[syms]} :
         /\ jniActivated' = (act \/ runs)
         /\ currentEnv' = IF runs THEN activateJNI(currentEnv, e) ELSE currentEnv
         /\ jniMemory' = IF runs THEN jniMemory \cup {e} ELSE jniMemory
  /\ jniInstall' = [emu |-> e, new |-> jniEmu # e, matched |-> jniMatches[syms]]
  /\ jniEmu' = e
  /\ jniGot' = NoJniGot
  /\ UNCHANGED nonJniVars

\* jni.GetJavaVM() and jni.GetJNIEnv(): 0 without an Env.
GetJavaVM ==
  /\ jniGot' = IF currentEnv = NoEnv THEN [fn |-> "GetJavaVM", ptr |-> 0, emu |-> NoEmu]
               ELSE [fn |-> "GetJavaVM", ptr |-> 65536 + currentEnv.javaVMBase,
                     emu |-> currentEnv.emu]
  /\ UNCHANGED <<currentEnv, jniEmu, jniActivated, jniMemory, jniInstall, nonJniVars>>

GetJNIEnv ==
  /\ jniGot' = IF currentEnv = NoEnv THEN [fn |-> "GetJNIEnv", ptr |-> 0, emu |-> NoEmu]
               ELSE [fn |-> "GetJNIEnv", ptr |-> 65536 + currentEnv.jniEnvBase,
                     emu |-> currentEnv.emu]
  /\ UNCHANGED <<currentEnv, jniEmu, jniActivated, jniMemory, jniInstall, nonJniVars>>

stringsCreated(env) == (env.nextStringRef - 4096) \div 8
idsInterned(env) ==
  Cardinality(DOMAIN env.classRefs) + Cardinality(DOMAIN env.methodRefs)
    + Cardinality(DOMAIN env.fieldRefs)

\* A stub of the Env runs: the guest called through the JNIEnv vtable.
EnvCalled == currentEnv # NoEnv
MayIntern(refs, key) == key \in DOMAIN refs \/ idsInterned(currentEnv) < MaxIds
EnvAfter(env) ==
  /\ currentEnv' = env
  /\ UNCHANGED <<jniEmu, jniActivated, jniMemory, jniInstall, jniGot, nonJniVars>>

\* stubNewStringUTF: ref := e.mockObjBase + e.nextStringRef
NewStringUTF(str) ==
  /\ EnvCalled
  /\ stringsCreated(currentEnv) < MaxStringRefs
  /\ EnvAfter([currentEnv EXCEPT
                 !.jniStrings = (currentEnv.nextStringRef :> str) @@ @,
                 !.nextStringRef = @ + 8])

\* stubFindClass
FindClass(className) ==
  /\ EnvCalled
  /\ MayIntern(currentEnv.classRefs, className)
  /\ EnvAfter(IF className \in DOMAIN currentEnv.classRefs THEN currentEnv
              ELSE [currentEnv EXCEPT
                      !.classRefs = (className :> currentEnv.nextClassRef) @@ @,
                      !.nextClassRef = @ + 8])

\* stubGetMethodID (0x10000) and stubGetStaticMethodID (0x20000).
GetMethodID(static, name, sig) ==
  /\ EnvCalled
  /\ \E key \in {(IF static THEN StaticPrefix ELSE <<>>) \o name \o sig} :
       /\ MayIntern(currentEnv.methodRefs, key)
       /\ EnvAfter(IF key \in DOMAIN currentEnv.methodRefs THEN currentEnv
                   ELSE [currentEnv EXCEPT
                           !.methodRefs = (key :> (IF static THEN 131072 ELSE 65536)
                                                    + currentEnv.nextMethodRef) @@ @,
                           !.nextMethodRef = @ + 8])

\* stubGetFieldID (0x60000) and stubGetStaticFieldID (0x70000).
GetFieldID(static, name, sig) ==
  /\ EnvCalled
  /\ \E key \in {(IF static THEN StaticPrefix ELSE <<>>) \o name \o sig} :
       /\ MayIntern(currentEnv.fieldRefs, key)
       /\ EnvAfter(IF key \in DOMAIN currentEnv.fieldRefs THEN currentEnv
                   ELSE [currentEnv EXCEPT
                           !.fieldRefs = (key :> (IF static THEN 458752 ELSE 393216)
                                                   + currentEnv.nextFieldRef) @@ @,
                           !.nextFieldRef = @ + 8])

\* Installs on two emulators, with the stubs that intern IDs.
NextJni ==
  \/ \E e \in Emus, syms \in JniSymbolTables : StubsInstall(e, syms)
  \/ GetJavaVM
  \/ GetJNIEnv
  \/ FindClass(<<65>>)
  \/ \E static \in BOOLEAN : GetMethodID(static, <<97>>, <<40, 41, 86>>)
  \/ \E static \in BOOLEAN : GetFieldID(static, <<102>>, <<73>>)

SpecJni == Init /\ [][NextJni]_vars

\* One JNI library on one emulator, and a guest that makes many strings.
NextRefs ==
  \/ \E syms \in {t \in JniSymbolTables : jniMatches[t]} : StubsInstall("e1", syms)
  \/ NewStringUTF(<<75, 55>>)
  \/ FindClass(<<65>>)
  \/ \E static \in BOOLEAN : GetMethodID(static, <<97>>, <<40, 41, 86>>)
  \/ \E static \in BOOLEAN : GetFieldID(static, <<102>>, <<73>>)

SpecRefs == Init /\ [][NextRefs]_vars

rangeOf(f) == {f[k] : k \in DOMAIN f}

\* C28: the string, class, method and field references of the Env are
\* pairwise distinct, within and across the pools, so no class, method or
\* field reference is a key of jniStrings.
C28_PoolsDisjoint ==
  currentEnv # NoEnv =>
    \E ids \in {rangeOf(currentEnv.classRefs) \cup rangeOf(currentEnv.methodRefs)
                  \cup rangeOf(currentEnv.fieldRefs)} :
      /\ Cardinality(ids) = idsInterned(currentEnv)
      /\ Cardinality(DOMAIN currentEnv.jniStrings) = stringsCreated(currentEnv)
      /\ ids \cap DOMAIN currentEnv.jniStrings = {}

\* C30: an Install for another emulator whose symbols match the detector
\* leaves the singleton bound to that emulator with empty pools and the
\* counters of NewEnv; and GetJavaVM and GetJNIEnv return 0 or a pointer
\* of an Env bound to the emulator of the last Install.
C30_SingletonFollowsInstall ==
  /\ [][jniEmu' # jniEmu /\ jniInstall'.matched => currentEnv' = NewEnv(jniEmu')]_vars
  /\ [](jniGot.fn # "none" /\ jniGot.ptr # 0 =>
          jniGot.emu = jniInstall.emu /\ jniInstall.emu \in jniMemory)

====
